---- MODULE Spec2Model ----
\* A model of createSourceFile (sourceFile.ts): the section state kept by update,
\* the generated script / template-script documents, and the diagnostics
\* aggregation engine returned by useDiagnostics (getDiagnostics); and of the
\* commands SWITCH_REF_SUGAR, HTML_TO_PUG and PUG_TO_HTML that rewrite a document.
EXTENDS Integers, Sequences, FiniteSets, TLC

\* ------------------------------------------------------------------ bounds
MaxCalls == 3       \* calls of update and getDiagnostics after construction
MaxCost == 1        \* largest measured wall-time of one producer execution
MaxUses == 2        \* most uses of the name in a text given to SWITCH_REF_SUGAR
MaxToggles == 2     \* most commands executed on a document
MaxPos == 5         \* largest offset of a generated document given to the remapping
MaxPositions == 3   \* most positions given to one selection-range query
MaxCostly == 2      \* most producer executions of a behaviour that measure a non-zero time
MaxReported == 1    \* most errors compileTemplate reports before it throws

\* --------------------------------------------------------------- utilities
RECURSIVE Flat(_)
\* Array.prototype.flat over an array of arrays
Flat(ss) == IF ss = <<>> THEN <<>> ELSE Head(ss) \o Flat(Tail(ss))

Range(s) == {s[i] : i \in 1..Len(s)}

\* ------------------------------------------------------ parsed source texts
\* vueSfc.parse and htmlparser2 are external: a source text is given by what they
\* return for it. A block is [content, lang, start, end]; lang is <<>> when the
\* block has no lang attribute; an optional block is a sequence of length <= 1.
Blk(c, l, s, e) == [content |-> c, lang |-> l, start |-> s, end |-> e]

Texts ==
    <<  \* 1: template, script and one style
        [template |-> <<Blk("p", <<>>, 10, 20)>>, script |-> <<Blk("a", <<"ts">>, 40, 50)>>,
         scriptSetup |-> <<>>, styles |-> <<Blk("s", <<>>, 70, 80)>>,
         customBlocks |-> <<>>, ignoreComments |-> {}],
        \* 2: text 1 with another script content
        [template |-> <<Blk("p", <<>>, 10, 20)>>, script |-> <<Blk("b", <<"ts">>, 40, 50)>>,
         scriptSetup |-> <<>>, styles |-> <<Blk("s", <<>>, 70, 80)>>,
         customBlocks |-> <<>>, ignoreComments |-> {}],
        \* 3: text 1 with another template content, another style content and no
        \*    lang on the script
        [template |-> <<Blk("q", <<>>, 10, 20)>>, script |-> <<Blk("a", <<>>, 40, 50)>>,
         scriptSetup |-> <<>>, styles |-> <<Blk("t", <<>>, 70, 80)>>,
         customBlocks |-> <<>>, ignoreComments |-> {}],
        \* 4: a pug template, script-setup without lang, no script, two styles of
        \*    which the first is ignored, a custom block
        [template |-> <<Blk("q", <<"pug">>, 10, 20)>>, script |-> <<>>,
         scriptSetup |-> <<Blk("c", <<>>, 40, 50)>>,
         styles |-> <<Blk("s", <<>>, 70, 80), Blk("t", <<"scss">>, 90, 95)>>,
         customBlocks |-> <<Blk("d", <<>>, 100, 110)>>, ignoreComments |-> {60}],
        \* 5: the contents of text 2 at shifted offsets, template and script
        \*    ignored, no style
        [template |-> <<Blk("p", <<>>, 15, 25)>>, script |-> <<Blk("b", <<"ts">>, 45, 55)>>,
         scriptSetup |-> <<>>, styles |-> <<>>,
         customBlocks |-> <<>>, ignoreComments |-> {0, 30}],
        \* 6: text 1 with a third template content
        [template |-> <<Blk("r", <<>>, 10, 20)>>, script |-> <<Blk("a", <<"ts">>, 40, 50)>>,
         scriptSetup |-> <<>>, styles |-> <<Blk("s", <<>>, 70, 80)>>,
         customBlocks |-> <<>>, ignoreComments |-> {}],
        \* 7: a style alone
        [template |-> <<>>, script |-> <<>>,
         scriptSetup |-> <<>>, styles |-> <<Blk("t", <<>>, 70, 80)>>,
         customBlocks |-> <<>>, ignoreComments |-> {}],
        \* 8: a template and a style, no script
        [template |-> <<Blk("q", <<>>, 10, 20)>>, script |-> <<>>,
         scriptSetup |-> <<>>, styles |-> <<Blk("s", <<>>, 70, 80)>>,
         customBlocks |-> <<>>, ignoreComments |-> {}],
        \* 9: a template, a script without lang and a style that all hold
        \*    problems, the template ignored
        [template |-> <<Blk("q", <<>>, 10, 20)>>, script |-> <<Blk("b", <<>>, 40, 50)>>,
         scriptSetup |-> <<>>, styles |-> <<Blk("t", <<>>, 70, 80)>>,
         customBlocks |-> <<>>, ignoreComments |-> {0}],
        \* 10: text 9 with the script ignored and the template not
        [template |-> <<Blk("q", <<>>, 10, 20)>>, script |-> <<Blk("b", <<>>, 40, 50)>>,
         scriptSetup |-> <<>>, styles |-> <<Blk("t", <<>>, 70, 80)>>,
         customBlocks |-> <<>>, ignoreComments |-> {30}],
        \* 11: text 9 with a script-setup section and a second style, these two
        \*     ignored
        [template |-> <<Blk("q", <<>>, 10, 20)>>, script |-> <<Blk("b", <<>>, 40, 50)>>,
         scriptSetup |-> <<Blk("c", <<>>, 55, 65)>>,
         styles |-> <<Blk("t", <<>>, 70, 80), Blk("t", <<"scss">>, 90, 95)>>,
         customBlocks |-> <<>>, ignoreComments |-> {52, 85}],
        \* 12: a pug template the pug parser rejects
        [template |-> <<Blk("e", <<"pug">>, 10, 20)>>, script |-> <<Blk("a", <<"ts">>, 40, 50)>>,
         scriptSetup |-> <<>>, styles |-> <<>>,
         customBlocks |-> <<>>, ignoreComments |-> {}],
        \* 13: a template that binds a class, a style in a language without a
        \*     style engine and a style in one with it, both holding a problem
        [template |-> <<Blk("k", <<>>, 10, 20)>>, script |-> <<Blk("a", <<"ts">>, 40, 50)>>,
         scriptSetup |-> <<>>,
         styles |-> <<Blk("t", <<"stylus">>, 70, 80), Blk("t", <<>>, 85, 95)>>,
         customBlocks |-> <<>>, ignoreComments |-> {}]
    >>

TextIds == 1..Len(Texts)

\* the texts the diagnostics engine is run on
EngineTexts == {1, 2, 3}

\* defaultLanguages
DefaultTemplateLang == "html"
DefaultScriptLang == "js"
DefaultStyleLang == "css"

\* lang ?? fallback
LangOr(l, d) == IF l = <<>> THEN d ELSE l[1]

\* The blocks of a parse in the order update lists them:
\* [template, script, scriptSetup, ...styles, ...customBlocks].filter(notEmpty),
\* each as <<kind, index, start offset>>.
BlocksOf(p) ==
    [i \in 1..Len(p.template) |-> <<"template", i, p.template[i].start>>]
    \o [i \in 1..Len(p.script) |-> <<"script", i, p.script[i].start>>]
    \o [i \in 1..Len(p.scriptSetup) |-> <<"scriptSetup", i, p.scriptSetup[i].start>>]
    \o [i \in 1..Len(p.styles) |-> <<"style", i, p.styles[i].start>>]
    \o [i \in 1..Len(p.customBlocks) |-> <<"custom", i, p.customBlocks[i].start>>]

\* a mutant of the marker loop: every block after the comment is marked
IgnoredBlocksAllAfter(p) ==
    {<<BlocksOf(p)[i][1], BlocksOf(p)[i][2]>> :
        i \in {j \in 1..Len(BlocksOf(p)) : \E c \in p.ignoreComments : BlocksOf(p)[j][3] > c}}

\* The blocks that get attrs['__VLS_ignore'] = true: for each top-level comment
\* holding the marker, the first of the blocks that start after the comment,
\* sorted by start offset (the sort is stable).
IgnoredBlocks(p) ==
    LET bs == BlocksOf(p)
        After(c) == {i \in 1..Len(bs) : bs[i][3] > c}
        First(c) == CHOOSE i \in After(c) :
                        \A j \in After(c) : bs[i][3] < bs[j][3] \/ (bs[i][3] = bs[j][3] /\ i <= j)
    IN  {<<bs[First(c)][1], bs[First(c)][2]>> : c \in {c \in p.ignoreComments : After(c) # {}}}

\* ------------------------------------------------------------- descriptor
\* newData of updateTemplate / updateScript / updateScriptSetup / updateStyles /
\* updateCustomBlocks: the fields copied from one parsed block. newData is a new
\* object; object stands for its identity, the number n of the call of update
\* that allocates it (0 for the constructor's call).
NewData(p, kind, i, b, dflt, n) ==
    [lang |-> LangOr(b.lang, dflt), content |-> b.content,
     start |-> b.start, end |-> b.end,
     ignore |-> (<<kind, i>> \in IgnoredBlocks(p)),
     object |-> n]

\* a mutant of updateTemplate / updateScript / updateScriptSetup: the section
\* is always replaced by newData
UpdateOptionalReplace(old, p, kind, dflt, n) ==
    IF p[kind] = <<>> THEN <<>> ELSE <<NewData(p, kind, 1, p[kind][1], dflt, n)>>

\* update's effect on an optional section (template, script, script-setup): the
\* fields are overwritten in place when the section exists before and after,
\* otherwise the section is replaced by newData (or null); the stored fields are
\* those of newData in both branches.
UpdateOptional(old, p, kind, dflt, n) ==
    LET new == IF p[kind] = <<>> THEN <<>> ELSE <<NewData(p, kind, 1, p[kind][1], dflt, n)>>
    IN  IF old # <<>> /\ new # <<>>
        THEN <<[old[1] EXCEPT !.lang = new[1].lang, !.content = new[1].content,
                              !.start = new[1].start, !.end = new[1].end,
                              !.ignore = new[1].ignore]>>
        ELSE new

RECURSIVE PopTo(_, _)
\* while (arr.length > n) arr.pop()
PopTo(arr, n) == IF Len(arr) > n THEN PopTo(SubSeq(arr, 1, Len(arr) - 1), n) ELSE arr

RECURSIVE MergeSlots(_, _, _, _, _, _, _)
\* the for loop of updateStyles / updateCustomBlocks from index i on: the fields
\* of slot i are overwritten when the slot exists, newData is pushed otherwise
MergeSlots(arr, p, field, kind, dflt, i, n) ==
    IF i > Len(p[field]) THEN arr
    ELSE LET nd == NewData(p, kind, i, p[field][i], dflt, n)
         IN  MergeSlots(IF Len(arr) >= i
                        THEN [arr EXCEPT ![i] = [nd EXCEPT !.object = arr[i].object]]
                        ELSE Append(arr, nd),
                        p, field, kind, dflt, i + 1, n)

\* a mutant of updateStyles: no surplus slot is popped
UpdateStylesNoPop(old, p, n) ==
    MergeSlots(old, p, "styles", "style", DefaultStyleLang, 1, n)

\* a mutant of updateStyles: every parsed style is pushed, no slot is reused and
\* no surplus slot is popped
UpdateStylesPushOnly(old, p, n) ==
    old \o [i \in 1..Len(p.styles) |-> NewData(p, "style", i, p.styles[i], DefaultStyleLang, n)]

UpdateStyles(old, p, n) ==
    PopTo(MergeSlots(old, p, "styles", "style", DefaultStyleLang, 1, n), Len(p.styles))

UpdateCustomBlocks(old, p, n) ==
    PopTo(MergeSlots(old, p, "customBlocks", "custom", "", 1, n), Len(p.customBlocks))

EmptyDescriptor ==
    [template |-> <<>>, script |-> <<>>, scriptSetup |-> <<>>, styles |-> <<>>,
     customBlocks |-> <<>>]

\* the descriptor after the five update* calls of the n-th call of update
UpdateDescriptor(d, p, n) ==
    [template |-> UpdateOptional(d.template, p, "template", DefaultTemplateLang, n),
     script |-> UpdateOptional(d.script, p, "script", DefaultScriptLang, n),
     scriptSetup |-> UpdateOptional(d.scriptSetup, p, "scriptSetup", DefaultScriptLang, n),
     styles |-> UpdateStyles(d.styles, p, n),
     customBlocks |-> UpdateCustomBlocks(d.customBlocks, p, n)]

\* x?.content: <<>> stands for undefined
ContentOf(sec) == IF sec = <<>> THEN <<>> ELSE <<sec[1].content>>

\* sections d and p differ in content or in where they start
MovedOrChanged(d, p) ==
    ContentOf(d) # ContentOf(p) \/ (d # <<>> /\ p # <<>> /\ d[1].start # p[1].start)

\* a mutant of the changed flags: a section that moved counts as changed
ChangedFlagsWithRange(d, p) ==
    [template |-> MovedOrChanged(d.template, p.template),
     script |-> MovedOrChanged(d.script, p.script),
     scriptSetup |-> MovedOrChanged(d.scriptSetup, p.scriptSetup)]

\* lastUpdateChanged as the three update* functions set it
ChangedFlags(d, p) ==
    [template |-> ContentOf(d.template) # ContentOf(p.template),
     script |-> ContentOf(d.script) # ContentOf(p.script),
     scriptSetup |-> ContentOf(d.scriptSetup) # ContentOf(p.scriptSetup)]

\* ------------------------------------------------- generated documents
\* useScriptSetupGen and useTemplateScript are not part of the sources at hand;
\* they are modelled from the specification: a generator whose inputs are absent
\* yields no document, and the version of a generated document advances only
\* when the generated text changes.
ScriptGenText(d) ==
    IF d.script = <<>> /\ d.scriptSetup = <<>> THEN <<>>
    ELSE <<[script |-> ContentOf(d.script), scriptSetup |-> ContentOf(d.scriptSetup)]>>

TemplateGenText(d) ==
    IF d.template = <<>> THEN <<>> ELSE <<[template |-> ContentOf(d.template)]>>

\* a generator's document after regeneration with text txt
Regenerate(g, txt) ==
    IF txt = g.text THEN g
    ELSE [text |-> txt, version |-> IF txt = <<>> THEN g.version ELSE g.version + 1]

NoDocument == [text |-> <<>>, version |-> 0]

\* textDocument.value?.version: -1 stands for undefined
VersionOf(g) == IF g.text = <<>> THEN -1 ELSE g.version

\* a mutant of update's return value: both flags compare the script versions
UpdateReturnScriptOnly(before, after) ==
    [scriptUpdated |-> before[1] # after[1],
     templateScriptUpdated |-> before[1] # after[1]]

\* update's return value from versionsBeforeUpdate and versionsAfterUpdate
UpdateReturn(before, after) ==
    [scriptUpdated |-> before[1] # after[1],
     templateScriptUpdated |-> before[2] # after[2]]

\* ---------------------------------------------------------- diagnostics
Diag(s, e, msg, sev) ==
    [range |-> <<s, e>>, message |-> msg, severity |-> sev,
     tags |-> IF msg = "TS6133" THEN {"Unnecessary"} ELSE {}]

\* The language engines are external: what they report is fixed by the content
\* of the section they are given, at offsets of the generated document in which
\* the section's content starts at base.
SemanticOf(sec, base) ==
    IF sec # <<>> /\ sec[1].content = "b"
    THEN <<Diag(base + 1, base + 2, "TS2322", "Error"),
           Diag(base + 3, base + 4, "TS6133", "Error")>>
    ELSE <<>>

SuggestionOf(sec, base) ==
    IF sec # <<>> /\ sec[1].content = "c"
    THEN <<Diag(base + 5, base + 6, "TS80001", "Hint")>> ELSE <<>>

TemplateCompileOf(sec) ==
    IF sec # <<>> /\ sec[1].content = "q"
    THEN <<Diag(1, 2, "vue-compile", "Error")>> ELSE <<>>

\* "q" is reported inside the lowered markup, "r" behind it
TemplateSemanticOf(sec) ==
    IF sec # <<>> /\ sec[1].content = "q" THEN <<Diag(3, 4, "TS2339", "Error")>>
    ELSE IF sec # <<>> /\ sec[1].content = "r" THEN <<Diag(12, 13, "TS6133", "Error")>>
    ELSE <<>>

StyleOf(st) ==
    IF st.content = "t" THEN <<Diag(1, 2, "css", "Warning")>> ELSE <<>>

\* tsLanguageService.getTextDocument2 finds the generated script only for lang="ts"
TsKnows(d) ==
    \A sec \in {d.script, d.scriptSetup} : sec = <<>> \/ sec[1].lang = "ts"

\* ------------------------------------------------------------ source maps
\* A source map is [uri of its mapped document, segments]; a segment maps the
\* range mapped of the generated document to the range source of the vue
\* document and carries the diagnostic capability.
Seg(ms, me, ss, se, cap) ==
    [mapped |-> <<ms, me>>, source |-> <<ss, se>>, diagnostic |-> cap]

SourceMapOf(uri, segs) == [uri |-> uri, segs |-> segs]

RECURSIVE getSourceRange(_, _, _)
\* SourceMap.getSourceRange is not part of the sources at hand; modelled from
\* the specification (lookups by containment): the range of the first segment
\* whose mapped range contains start..end, carried over by offset, with the
\* segment's data; <<>> stands for undefined.
getSourceRange(segs, start, end) ==
    IF segs = <<>> THEN <<>>
    ELSE IF Head(segs).mapped[1] <= start /\ end <= Head(segs).mapped[2]
    THEN <<[start |-> Head(segs).source[1] + (start - Head(segs).mapped[1]),
            end |-> Head(segs).source[1] + (end - Head(segs).mapped[1]),
            diagnostic |-> Head(segs).diagnostic]>>
    ELSE getSourceRange(Tail(segs), start, end)

\* a mutant of the inner loop of toSourceDiags: a range whose segment lacks the
\* diagnostic capability is skipped, as toTsSourceDiags does
SourceRangesOfCapableOnly(error, virtualScriptUri, sourceMaps) ==
    Flat([i \in 1..Len(sourceMaps) |->
            LET vueRange == getSourceRange(sourceMaps[i].segs, error.range[1], error.range[2])
            IN  IF sourceMaps[i].uri # virtualScriptUri THEN <<>>
                ELSE IF vueRange = <<>> \/ ~vueRange[1].diagnostic THEN <<>>
                ELSE <<[error EXCEPT !.range = <<vueRange[1].start, vueRange[1].end>>]>>])

\* the inner loop of toSourceDiags for one error
SourceRangesOf(error, virtualScriptUri, sourceMaps) ==
    Flat([i \in 1..Len(sourceMaps) |->
            LET vueRange == getSourceRange(sourceMaps[i].segs, error.range[1], error.range[2])
            IN  IF sourceMaps[i].uri # virtualScriptUri THEN <<>>
                ELSE IF vueRange = <<>> THEN <<>>
                ELSE <<[error EXCEPT !.range = <<vueRange[1].start, vueRange[1].end>>]>>])

RECURSIVE toSourceDiags(_, _, _)
toSourceDiags(errors, virtualScriptUri, sourceMaps) ==
    IF errors = <<>> THEN <<>>
    ELSE SourceRangesOf(Head(errors), virtualScriptUri, sourceMaps)
         \o toSourceDiags(Tail(errors), virtualScriptUri, sourceMaps)

\* a mutant of the capability test: a range found is taken whatever its data
UsableAny(vueRange) == vueRange # <<>>

\* the negation of (!vueRange || !vueRange.data.capabilities.diagnostic)
Usable(vueRange) == vueRange # <<>> /\ vueRange[1].diagnostic

\* the first inner loop of toTsSourceDiags for one error: the full range
FullRangesOf(error, virtualScriptUri, sourceMaps) ==
    Flat([i \in 1..Len(sourceMaps) |->
            LET vueRange == getSourceRange(sourceMaps[i].segs, error.range[1], error.range[2])
            IN  IF sourceMaps[i].uri # virtualScriptUri THEN <<>>
                ELSE IF ~Usable(vueRange) THEN <<>>
                ELSE <<[error EXCEPT !.range = <<vueRange[1].start, vueRange[1].end>>]>>])

\* a mutant of the second inner loop: a range whose end precedes its start is
\* not pushed
PatchedRangesOfOrdered(error, virtualScriptUri, sourceMaps) ==
    Flat([i \in 1..Len(sourceMaps) |->
            LET vueStartRange == getSourceRange(sourceMaps[i].segs, error.range[1], error.range[1])
                vueEndRange == getSourceRange(sourceMaps[i].segs, error.range[2], error.range[2])
            IN  IF sourceMaps[i].uri # virtualScriptUri THEN <<>>
                ELSE IF ~Usable(vueStartRange) THEN <<>>
                ELSE IF ~Usable(vueEndRange) THEN <<>>
                ELSE IF vueEndRange[1].start < vueStartRange[1].start THEN <<>>
                ELSE <<[error EXCEPT !.range = <<vueStartRange[1].start, vueEndRange[1].start>>]>>])

\* the second inner loop (found is false): the start and the end looked up apart
PatchedRangesOf(error, virtualScriptUri, sourceMaps) ==
    Flat([i \in 1..Len(sourceMaps) |->
            LET vueStartRange == getSourceRange(sourceMaps[i].segs, error.range[1], error.range[1])
                vueEndRange == getSourceRange(sourceMaps[i].segs, error.range[2], error.range[2])
            IN  IF sourceMaps[i].uri # virtualScriptUri THEN <<>>
                ELSE IF ~Usable(vueStartRange) THEN <<>>
                ELSE IF ~Usable(vueEndRange) THEN <<>>
                ELSE <<[error EXCEPT !.range = <<vueStartRange[1].start, vueEndRange[1].start>>]>>])

RECURSIVE toTsSourceDiags(_, _, _)
toTsSourceDiags(errors, virtualScriptUri, sourceMaps) ==
    IF errors = <<>> THEN <<>>
    ELSE (IF FullRangesOf(Head(errors), virtualScriptUri, sourceMaps) # <<>>
          THEN FullRangesOf(Head(errors), virtualScriptUri, sourceMaps)
          ELSE PatchedRangesOf(Head(errors), virtualScriptUri, sourceMaps))
         \o toTsSourceDiags(Tail(errors), virtualScriptUri, sourceMaps)

\* The generators' documents and maps are not part of the sources at hand; they
\* are modelled from the specification: the generated script holds the script's
\* content from offset 0 and the script-setup's content after it, the generated
\* template script and each style document hold their section from offset 0,
\* and each section is mapped by one segment with the diagnostic capability.
SectionSeg(sec, base) ==
    Seg(base, base + (sec.end - sec.start), sec.start, sec.end, TRUE)

SetupBase(d) == IF d.script = <<>> THEN 0 ELSE d.script[1].end - d.script[1].start + 1

ScriptSegs(d) ==
    (IF d.script = <<>> THEN <<>> ELSE <<SectionSeg(d.script[1], 0)>>)
    \o (IF d.scriptSetup = <<>> THEN <<>> ELSE <<SectionSeg(d.scriptSetup[1], SetupBase(d))>>)

\* virtualScriptGen.textDocument and textDocumentForSuggestion: <<uri>> or <<>>
ScriptDocument(d) == IF ScriptGenText(d) = <<>> THEN <<>> ELSE <<"script.ts">>
SuggestionDocument(d) == IF ScriptGenText(d) = <<>> THEN <<>> ELSE <<"script.suggestion.ts">>
TemplateDocument(d) == IF TemplateGenText(d) = <<>> THEN <<>> ELSE <<"template.ts">>

\* the argument dtsMode of createSourceFile: TRUE when the ref is given and
\* holds true, FALSE when it holds false or is not given
VARIABLE dtsMode

\* The computed tsSourceMaps: no map in dtsMode, else the maps the generators
\* provide, in the order of the array. The script generator provides its three
\* maps together, the third for the document tuned for the template; the main
\* script document is synthesized whatever the sections are and none of its
\* text is mapped to the source.
tsSourceMaps(d) ==
    IF dtsMode THEN <<>>
    ELSE (IF ScriptGenText(d) = <<>> THEN <<>>
          ELSE <<SourceMapOf("script.ts", ScriptSegs(d)),
                 SourceMapOf("script.suggestion.ts", ScriptSegs(d)),
                 SourceMapOf("script.template.ts", ScriptSegs(d))>>)
         \o <<SourceMapOf("main.ts", <<>>)>>
         \o (IF TemplateGenText(d) = <<>> THEN <<>>
             ELSE <<SourceMapOf("template.ts", <<SectionSeg(d.template[1], 0)>>)>>)

StyleUris == <<"style.1.css", "style.2.css">>

\* languageServices.getCssLanguageService(languageId): a service or undefined
getCssLanguageService(languageId) == languageId \in {"css", "scss", "less"}

\* virtualTemplateGen.cssTextDocument: the template generator emits a css
\* document for a template that binds classes, of the contents here "k" alone;
\* the document holds what the style engine reports as it reports "t"
TemplateCssDocument(d) ==
    IF d.template # <<>> /\ d.template[1].content = "k"
    THEN <<[uri |-> "template.css", languageId |-> "css", stylesheet |-> TRUE,
            ignore |-> FALSE, content |-> "t"]>>
    ELSE <<>>

\* virtualStyles.textDocuments: the css document of the template, then the
\* documents of the style sections, each {textDocument, stylesheet, ignore}; a
\* style document has a stylesheet when a service exists for its language
StyleDocuments(d) ==
    TemplateCssDocument(d)
    \o [i \in 1..Len(d.styles) |->
          [uri |-> StyleUris[i], languageId |-> d.styles[i].lang,
           stylesheet |-> getCssLanguageService(d.styles[i].lang),
           ignore |-> d.styles[i].ignore, content |-> d.styles[i].content]]

\* virtualStyles.sourceMaps: the css map of the template, then the maps of the
\* style sections
StyleSourceMaps(d) ==
    (IF TemplateCssDocument(d) = <<>> THEN <<>>
     ELSE <<SourceMapOf("template.css", <<SectionSeg(d.template[1], 0)>>)>>)
    \o [i \in 1..Len(d.styles) |-> SourceMapOf(StyleUris[i], <<SectionSeg(d.styles[i], 0)>>)]

\* virtualTemplateRaw.htmlSourceMap, present for an html template
HtmlSourceMaps(d) ==
    IF d.template # <<>> /\ d.template[1].lang = "html"
    THEN <<SourceMapOf("template.html", <<SectionSeg(d.template[1], 0)>>)>> ELSE <<>>

\* tsLanguageService.doValidation of the generated script
ScriptErrors(d, mode) ==
    IF mode = 1 THEN SemanticOf(d.script, 0) \o SemanticOf(d.scriptSetup, SetupBase(d))
    ELSE IF mode = 2 THEN <<>>
    ELSE SuggestionOf(d.script, 0) \o SuggestionOf(d.scriptSetup, SetupBase(d))

\* The teleport map and findDefinition are external: the name the template
\* script uses at 3..4 and at 12..13 is the name the generated script declares
\* at 5..6, and the teleport map holds one primary and one additional entry for
\* each use.
SetupReturnUses == {<<3, 4>>, <<12, 13>>}

SpanText(diag) == IF diag.range \in SetupReturnUses THEN "msg" ELSE ""

TeleportRanges(diag) ==
    IF diag.range \in SetupReturnUses
    THEN <<[start |-> 7, isAdditionalReference |-> FALSE],
           [start |-> 8, isAdditionalReference |-> TRUE]>>
    ELSE <<>>

\* from the primary entry the engine finds the declaration in the generated
\* script and one in another file, from the additional entry another place of
\* the generated script
FindDefinition(start) ==
    IF start = 7
    THEN <<[targetUri |-> "script.ts", targetSelectionRange |-> <<5, 6>>],
           [targetUri |-> "other.ts", targetSelectionRange |-> <<1, 2>>]>>
    ELSE <<[targetUri |-> "script.ts", targetSelectionRange |-> <<7, 8>>]>>

\* templateScriptData as constructed; projectVersion <<>> stands for undefined
InitTemplateScriptData ==
    [projectVersion |-> <<>>, context |-> <<>>, components |-> <<>>, props |-> <<>>,
     setupReturns |-> <<>>, htmlElements |-> <<>>, componentItems |-> <<>>,
     htmlElementItems |-> <<>>]

\* The host's project is external: a project state is its version token (<<>>
\* when the host has no getProjectVersion) and the names doComplete returns at
\* the five sentinels of the main script document.
ProjectOf(version, context, components, props, setupReturns, htmlElements) ==
    [version |-> version, context |-> context, components |-> components,
     props |-> props, setupReturns |-> setupReturns, htmlElements |-> htmlElements]

Projects ==
    <<ProjectOf(<<>>, <<>>, <<"Comp">>, <<>>, <<"msg">>, <<>>),
      ProjectOf(<<"v1">>, <<>>, <<>>, <<>>, <<>>, <<>>),
      ProjectOf(<<"v2">>, <<"ctx">>, <<"Comp">>, <<>>, <<"msg">>, <<"div">>),
      ProjectOf(<<"v3">>, <<"ctx">>, <<"Comp">>, <<>>, <<"msg", "msg">>, <<"div">>),
      ProjectOf(<<"v4">>, <<"ctx">>, <<"Comp", "Other">>, <<"p">>, <<>>, <<"div">>),
      ProjectOf(<<"v5">>, <<"ctx">>, <<"Other", "Comp">>, <<"p">>, <<>>, <<"div">>),
      ProjectOf(<<"v6">>, <<"ctx">>, <<"Comp">>, <<>>, <<"msg">>, <<"div">>)>>

\* What the script engine reports in a generated document depends on the other
\* files of the project too: under the project state of token v6 a declaration
\* the document imports is gone, which the semantic and the suggestion
\* diagnostics report at 2..3; the syntactic diagnostics depend on the text of
\* the document alone.
ProjectErrors(j, mode) ==
    IF Projects[j].version # <<"v6">> THEN <<>>
    ELSE IF mode = 1 THEN <<Diag(2, 3, "TS2305", "Error")>>
    ELSE IF mode = 3 THEN <<Diag(2, 3, "TS80002", "Hint")>>
    ELSE <<>>

NameSets == {"context", "components", "props", "setupReturns", "htmlElements"}

\* a mutant of eqSet: the arrays are compared as they are
eqSetAsArrays(as, bs) == as = bs

\* eqSet(new Set(as), new Set(bs))
eqSet(as, bs) ==
    /\ Cardinality(Range(as)) = Cardinality(Range(bs))
    /\ \A a \in Range(as) : a \in Range(bs)

\* a mutant of updateTemplateScript: the token is stored with the names, after
\* the comparison of the name sets
UpdatedTemplateScriptDataTokenLate(data, host) ==
    IF data.projectVersion = host.version THEN data
    ELSE IF \A f \in NameSets : eqSet(host[f], data[f])
    THEN data
    ELSE [projectVersion |-> host.version, context |-> host.context,
          components |-> host.components, props |-> host.props,
          setupReturns |-> host.setupReturns, htmlElements |-> host.htmlElements,
          componentItems |-> host.components, htmlElementItems |-> host.htmlElements]

\* templateScriptData after updateTemplateScript under the project state host
UpdatedTemplateScriptData(data, host) ==
    IF data.projectVersion = host.version THEN data
    ELSE IF /\ eqSet(host.context, data.context)
            /\ eqSet(host.components, data.components)
            /\ eqSet(host.props, data.props)
            /\ eqSet(host.setupReturns, data.setupReturns)
            /\ eqSet(host.htmlElements, data.htmlElements)
    THEN [data EXCEPT !.projectVersion = host.version]
    ELSE [projectVersion |-> host.version, context |-> host.context,
          components |-> host.components, props |-> host.props,
          setupReturns |-> host.setupReturns, htmlElements |-> host.htmlElements,
          componentItems |-> host.components, htmlElementItems |-> host.htmlElements]

\* ------------------------------------------------------------- producers
nonTs == <<"style", "template", "scriptExist">>
InitTemplateTs == <<"T1", "T2", "T3">>
InitScriptTs == <<"S1", "S2", "S3", "S4">>
Producers == Range(nonTs) \cup Range(InitTemplateTs) \cup Range(InitScriptTs)

ignoreTemplateCheck(d) == d.template # <<>> /\ d.template[1].ignore

\* a mutant of ignoreScriptCheck: the script-setup section's flag is not read
ignoreScriptCheckScriptOnly(d) == d.script # <<>> /\ d.script[1].ignore

ignoreScriptCheck(d) ==
    \/ d.script # <<>> /\ d.script[1].ignore
    \/ d.scriptSetup # <<>> /\ d.scriptSetup[1].ignore

\* the computed errors of useStylesValidation: the entries [uri, errs] of the
\* Map, in the order they are set
StyleErrors(documents) ==
    Flat([i \in 1..Len(documents) |->
            IF documents[i].ignore THEN <<>>
            ELSE IF ~getCssLanguageService(documents[i].languageId) \/ ~documents[i].stylesheet
            THEN <<>>
            ELSE <<[uri |-> documents[i].uri, errs |-> StyleOf(documents[i])]>>])

\* the computed useStylesValidation returns; errors is errors.value
useStylesValidation(errors, sourceMaps) ==
    Flat([i \in 1..Len(errors) |-> toSourceDiags(errors[i].errs, errors[i].uri, sourceMaps)])

\* The pug parser and the html it generates are external: the parser rejects
\* the content "e" at column 2; for any other content the generated html is
\* mapped to the pug text by two segments, html 0..3 to pug 0..3 and html 4..8
\* to pug 3..7, and the pug text holds a blank at offset 4.
PugAstError(sec) ==
    IF sec.content = "e" THEN <<[code |-> "PUG", msg |-> "pug-parse", line |-> 0, column |-> 2]>>
    ELSE <<>>

PugSegs == <<Seg(0, 3, 0, 3, TRUE), Seg(4, 8, 3, 7, TRUE)>>

PugBlanks == {4}

\* getVueCompileErrors(htmlDoc) for the html generated from a pug template, at
\* offsets of that html: an error inside the first segment, one that spans the
\* two segments, one that ends and one that starts and ends behind them
PugCompileOf(sec) ==
    IF sec.content = "q"
    THEN <<Diag(1, 2, "vue-compile", "Error"), Diag(2, 6, "vue-compile", "Error"),
           Diag(2, 9, "vue-compile", "Error"), Diag(9, 10, "vue-compile", "Error")>>
    ELSE <<>>

\* prettyhtml is external: it throws on the snippet that starts at 9
PrettyThrows(range) == range[1] = 9

\* vueCompileError.message += errorText
WithSnippet(message, range) ==
    IF PrettyThrows(range) THEN message \o ", raw html, error as json"
    ELSE message \o ", pretty html"

\* htmlDoc.getText().length of the html generated from a pug template
PugHtmlLength == 10

\* getVueCompileErrors(doc): the errors compileTemplate reports for the
\* document; when it throws, those it reported before and then the error
\* caught, over the whole document of the given length
getVueCompileErrors(errors, length, reported, thrown) ==
    IF thrown
    THEN SubSeq(errors, 1, reported) \o <<Diag(0, length, "compile failed", "Error")>>
    ELSE errors

RECURSIVE TrimLength(_, _)
\* pugText.length - pugText.trimEnd().length for the pug text from..to
TrimLength(from, to) ==
    IF to > from /\ (to - 1) \in PugBlanks THEN 1 + TrimLength(from, to - 1) ELSE 0

\* pugRange of one compile error: the full range mapped back, else the start
\* and the end mapped back apart and the blanks at the end trimmed; <<>> stands
\* for undefined
PugRange(error) ==
    LET full == getSourceRange(PugSegs, error.range[1], error.range[2])
        pugStart == getSourceRange(PugSegs, error.range[1], error.range[1])
        pugEnd == getSourceRange(PugSegs, error.range[2], error.range[2])
    IN  IF full # <<>> THEN <<full[1].start, full[1].end>>
        ELSE IF pugStart # <<>> /\ pugEnd # <<>>
        THEN <<pugStart[1].start,
               pugEnd[1].end - TrimLength(IF pugStart[1].start <= pugEnd[1].end
                                          THEN pugStart[1].start ELSE pugEnd[1].end,
                                          IF pugStart[1].start <= pugEnd[1].end
                                          THEN pugEnd[1].end ELSE pugStart[1].start)>>
        ELSE <<>>

\* a mutant of the loop over the compile errors: an error whose range does not
\* map back is dropped
PugDiagOfMappedOnly(error, sec) ==
    IF PugRange(error) # <<>> THEN <<[error EXCEPT !.range = PugRange(error)]>> ELSE <<>>

\* what the loop over the compile errors pushes for one error: the error at
\* pugRange, else over the whole template document with the snippet in its
\* message
PugDiagOf(error, sec) ==
    IF PugRange(error) # <<>> THEN <<[error EXCEPT !.range = PugRange(error)]>>
    ELSE <<[error EXCEPT !.message = WithSnippet(error.message, error.range),
                         !.range = <<0, sec.end - sec.start>>]>>

\* the computed pugErrors, at offsets of the pug text
PugErrors(d, reported, thrown) ==
    IF d.template = <<>> \/ d.template[1].lang # "pug" THEN <<>>
    ELSE IF PugAstError(d.template[1]) # <<>>
    THEN <<[range |-> <<PugAstError(d.template[1])[1].column,
                        PugAstError(d.template[1])[1].column>>,
            message |-> PugAstError(d.template[1])[1].msg,
            severity |-> "None", tags |-> {}]>>
    ELSE LET vueCompileErrors == getVueCompileErrors(PugCompileOf(d.template[1]),
                                                     PugHtmlLength, reported, thrown)
         IN  Flat([i \in 1..Len(vueCompileErrors) |->
                     PugDiagOf(vueCompileErrors[i], d.template[1])])

\* the computed htmlErrors, at offsets of the html text
HtmlErrors(d, reported, thrown) ==
    IF d.template = <<>> \/ d.template[1].lang # "html" THEN <<>>
    ELSE getVueCompileErrors(TemplateCompileOf(d.template),
                             d.template[1].end - d.template[1].start, reported, thrown)

\* compileTemplate is called with the template: the errors it reports when
\* it does not throw, <<>> when it is not called
CompiledErrors(d) ==
    IF d.template = <<>> THEN <<>>
    ELSE IF d.template[1].lang = "html" THEN <<TemplateCompileOf(d.template)>>
    ELSE IF d.template[1].lang = "pug" /\ PugAstError(d.template[1]) = <<>>
    THEN <<PugCompileOf(d.template[1])>>
    ELSE <<>>

\* htmlErrors.value and pugErrors.value, as the two computeds yield them
TemplateErrors(d, reported, thrown) ==
    [html |-> HtmlErrors(d, reported, thrown), pug |-> PugErrors(d, reported, thrown)]

\* virtualTemplateRaw.pugSourceMap, present for a pug template
PugSourceMaps(d) ==
    IF d.template # <<>> /\ d.template[1].lang = "pug"
    THEN <<SourceMapOf("template.pug", <<SectionSeg(d.template[1], 0)>>)>> ELSE <<>>

\* virtualTemplateRaw.textDocument.value.uri
TemplateRawUri(d) == IF PugSourceMaps(d) # <<>> THEN "template.pug" ELSE "template.html"

\* the computed useTemplateValidation returns; errors holds htmlErrors.value
\* and pugErrors.value
useTemplateValidation(d, errors) ==
    IF ignoreTemplateCheck(d) THEN <<>>
    ELSE IF d.template = <<>> THEN <<>>
    ELSE toSourceDiags(errors.html, TemplateRawUri(d), HtmlSourceMaps(d))
         \o toSourceDiags(errors.pug, TemplateRawUri(d), PugSourceMaps(d))

\* useTemplateValidation when vueSfc.compileTemplate throws after it reported
\* the first reported of its errors: getVueCompileErrors catches it and
\* reports it over the whole document compiled
useTemplateValidationCaught(d, reported) ==
    useTemplateValidation(d, TemplateErrors(d, reported, TRUE))

\* diag[0].value of producer p, evaluated anew, reaches a call of an engine
\* outside any try block: none for a section whose checks are ignored
EngineCalled(p, d, noUnused) ==
    CASE p = "style" -> \E i \in 1..Len(StyleDocuments(d)) :
                            /\ ~StyleDocuments(d)[i].ignore
                            /\ getCssLanguageService(StyleDocuments(d)[i].languageId)
                            /\ StyleDocuments(d)[i].stylesheet
      [] p = "template" -> FALSE
      [] p = "scriptExist" -> ~ignoreScriptCheck(d) /\ ScriptDocument(d) # <<>>
      [] p \in {"T1", "T2", "T3"} -> ~ignoreTemplateCheck(d) /\ TemplateDocument(d) # <<>>
      [] p \in {"S1", "S2", "S3"} -> ~ignoreScriptCheck(d) /\ ScriptDocument(d) # <<>>
      [] p = "S4" -> ~ignoreScriptCheck(d) /\ noUnused /\ SuggestionDocument(d) # <<>>

\* what the computed of useScriptExistValidation read when it was evaluated:
\* the ignore flag alone, the generated document too, or the sections too
ScriptExistReads(d) ==
    IF ignoreScriptCheck(d) THEN "ignore"
    ELSE IF ScriptDocument(d) # <<>> /\ ~TsKnows(d) THEN "sections"
    ELSE "document"

useScriptExistValidation(d) ==
    IF ignoreScriptCheck(d) THEN <<>>
    ELSE IF ScriptDocument(d) # <<>> /\ ~TsKnows(d)
    THEN Flat([i \in 1..2 |->
            LET sec == IF i = 1 THEN d.script ELSE d.scriptSetup
            IN  IF sec = <<>> THEN <<>>
                ELSE <<Diag(sec[1].start, sec[1].end, "virtual file is not found", "Warning")>>])
    ELSE <<>>

\* a mutant of useScriptValidation: the generated script is validated whether
\* document holds a document or not
useScriptValidationUnguarded(d, document, mode, onlyUnusedCheck, errors) ==
    IF ignoreScriptCheck(d) THEN <<>>
    ELSE LET result == toTsSourceDiags(ScriptErrors(d, mode), "script.ts", tsSourceMaps(d))
         IN  IF onlyUnusedCheck
             THEN SelectSeq(result, LAMBDA error : "Unnecessary" \in error.tags)
             ELSE result

\* the computed useScriptValidation returns; document is <<uri>> or <<>>, mode
\* is 1 semantic, 2 syntactic, 3 suggestion, errors is errors.value
useScriptValidation(d, document, mode, onlyUnusedCheck, errors) ==
    IF ignoreScriptCheck(d) THEN <<>>
    ELSE IF document = <<>> THEN <<>>
    ELSE LET result == toTsSourceDiags(errors, document[1], tsSourceMaps(d))
         IN  IF onlyUnusedCheck
             THEN SelectSeq(result, LAMBDA error : "Unnecessary" \in error.tags)
             ELSE result

\* errors_1 of useTemplateScriptValidation
TemplateScriptErrors(d, mode) ==
    IF TemplateDocument(d) = <<>> \/ mode # 1 THEN <<>> ELSE TemplateSemanticOf(d.template)

\* a mutant of errors_2: the additional references are followed as well
RelocatedErrorsAllEntries(d, mode, setupReturns, errors_1) ==
    IF TemplateDocument(d) = <<>> \/ ScriptDocument(d) = <<>> THEN <<>>
    ELSE     Flat([i \in 1..Len(errors_1) |->
                IF SpanText(errors_1[i]) \notin setupReturns THEN <<>>
                ELSE Flat([j \in 1..Len(TeleportRanges(errors_1[i])) |->
                        LET propRight == TeleportRanges(errors_1[i])[j]
                            definitions == FindDefinition(propRight.start)
                        IN  IF FALSE THEN <<>>
                            ELSE Flat([k \in 1..Len(definitions) |->
                                    IF definitions[k].targetUri # ScriptDocument(d)[1]
                                    THEN <<>>
                                    ELSE <<[errors_1[i] EXCEPT
                                              !.range = definitions[k].targetSelectionRange]>>])])])

\* errors_2: the errors_1 on a setup-returned name, moved to the name's
\* definition in the generated script
RelocatedErrors(d, mode, setupReturns, errors_1) ==
    IF TemplateDocument(d) = <<>> \/ ScriptDocument(d) = <<>> THEN <<>>
    ELSE     Flat([i \in 1..Len(errors_1) |->
                IF SpanText(errors_1[i]) \notin setupReturns THEN <<>>
                ELSE Flat([j \in 1..Len(TeleportRanges(errors_1[i])) |->
                        LET propRight == TeleportRanges(errors_1[i])[j]
                            definitions == FindDefinition(propRight.start)
                        IN  IF propRight.isAdditionalReference THEN <<>>
                            ELSE Flat([k \in 1..Len(definitions) |->
                                    IF definitions[k].targetUri # ScriptDocument(d)[1]
                                    THEN <<>>
                                    ELSE <<[errors_1[i] EXCEPT
                                              !.range = definitions[k].targetSelectionRange]>>])])])

\* a mutant of useTemplateScriptValidation: result_1 alone is returned
useTemplateScriptValidationUsageOnly(d, mode, setupReturns, errors_1) ==
    IF ignoreTemplateCheck(d) \/ TemplateDocument(d) = <<>> THEN <<>>
    ELSE toTsSourceDiags(errors_1, TemplateDocument(d)[1], tsSourceMaps(d))

\* the computed useTemplateScriptValidation returns; errors_1 is errors_1.value
useTemplateScriptValidation(d, mode, setupReturns, errors_1) ==
    IF ignoreTemplateCheck(d) THEN <<>>
    ELSE LET result_1 == IF TemplateDocument(d) # <<>>
                         THEN toTsSourceDiags(errors_1,
                                              TemplateDocument(d)[1], tsSourceMaps(d))
                         ELSE <<>>
             result_2 == IF ScriptDocument(d) # <<>>
                         THEN toTsSourceDiags(RelocatedErrors(d, mode, setupReturns, errors_1),
                                              ScriptDocument(d)[1], tsSourceMaps(d))
                         ELSE <<>>
         IN  result_1 \o result_2

\* the producers whose engine is the script engine
TsProducers == Range(InitTemplateTs) \cup Range(InitScriptTs)

\* the mode a producer is created with
ModeOf(p) ==
    IF p \in {"S1", "S4", "T1"} THEN 1 ELSE IF p \in {"S2", "T2"} THEN 2 ELSE 3

\* a mutant of the watch: every mode reads tsProjectVersion
WatchingEveryMode(mode) == TRUE

\* if (mode === 1) { tsProjectVersion.value; }: the errors of a producer of
\* this mode depend on tsProjectVersion
Watching(mode) == mode = 1

\* the document a producer validates, <<uri>> or <<>>
DocumentOf(p, d, noUnused) ==
    CASE p \in Range(InitTemplateTs) -> TemplateDocument(d)
      [] p \in {"S1", "S2"} -> ScriptDocument(d)
      [] p = "S3" -> IF SuggestionDocument(d) # <<>> THEN SuggestionDocument(d)
                     ELSE ScriptDocument(d)
      [] p = "S4" -> IF noUnused THEN SuggestionDocument(d) ELSE <<>>

\* the computed a producer's diag[0] reads, evaluated now: for a producer of
\* the script engine errors (errors_1) under project state j, what the engine
\* reports in the document; for the styles the Map errors; for the template
\* htmlErrors and pugErrors; for the script's existence the one computed, with
\* what it read
Errors(p, d, noUnused, j) ==
    CASE p = "style" -> StyleErrors(StyleDocuments(d))
      [] p = "template" -> TemplateErrors(d, 0, FALSE)
      [] p = "scriptExist" ->
            [value |-> useScriptExistValidation(d), reads |-> ScriptExistReads(d)]
      [] p \in TsProducers ->
            IF DocumentOf(p, d, noUnused) = <<>> THEN <<>>
            ELSE (IF p \in Range(InitTemplateTs) THEN TemplateScriptErrors(d, ModeOf(p))
                  ELSE ScriptErrors(d, ModeOf(p)))
                 \o ProjectErrors(j, ModeOf(p))

\* diag[0].value of producer p reads that computed
ReadsErrors(p, d, noUnused) ==
    CASE p \in {"style", "scriptExist"} -> TRUE
      [] p = "template" -> ~ignoreTemplateCheck(d) /\ d.template # <<>>
      [] p \in TsProducers ->
            /\ DocumentOf(p, d, noUnused) # <<>>
            /\ IF p \in Range(InitTemplateTs) THEN ~ignoreTemplateCheck(d)
               ELSE ~ignoreScriptCheck(d)

\* errors.value: a computed returns the value it holds unless a dependency has
\* changed since it was evaluated; memo[p] is <<>> when the computed of p was
\* never evaluated or a dependency has changed since, else it starts with the
\* value held
ErrorsValue(memo, p, d, noUnused, j) ==
    IF memo[p] # <<>> THEN memo[p][1] ELSE Errors(p, d, noUnused, j)

\* what producer p holds once diag[0].value was evaluated with errors: errors,
\* and for a producer of the template script errors_2 too when the generated
\* script exists
Held(p, d, setupReturns, errors) ==
    IF p \in Range(InitTemplateTs) /\ ScriptDocument(d) # <<>>
    THEN <<errors, RelocatedErrors(d, ModeOf(p), Range(setupReturns), errors)>>
    ELSE <<errors>>

\* what producer p still holds of held once update has replaced descriptor d
\* by new: a computed is dropped when a field it read was assigned another
\* value, or a computed it read was dropped, whether or not it would yield
\* the value it held. The slot of a section is assigned when the section
\* comes or goes, its fields when it stays. ignoreScriptCheck reads the
\* script's slot and flag, and the script-setup's when the script's flag is
\* not set; the style documents read the template through the css document
\* the template generator makes of it.
Kept(p, held, d, new, scriptChanged, templateChanged, textChanged) ==
    LET slot(k) == (d[k] = <<>>) # (new[k] = <<>>)
        field(k, f) == d[k] # <<>> /\ new[k] # <<>> /\ d[k][1][f] # new[k][1][f]
        ignoreScriptRead ==
            \/ slot("script") \/ field("script", "ignore")
            \/ /\ ~(d.script # <<>> /\ d.script[1].ignore)
               /\ (slot("scriptSetup") \/ field("scriptSetup", "ignore"))
        templateRead ==
            slot("template") \/ field("template", "content") \/ field("template", "lang")
    IN
    IF held = <<>> THEN <<>>
    ELSE CASE p = "style" ->
                 IF StyleDocuments(new) # StyleDocuments(d) \/ templateRead THEN <<>>
                 ELSE held
           [] p = "template" -> IF templateRead THEN <<>> ELSE held
           [] p = "scriptExist" ->
                 IF ignoreScriptRead THEN <<>>
                 ELSE IF held[1].reads = "ignore" THEN held
                 ELSE IF scriptChanged THEN <<>>
                 ELSE IF held[1].reads = "sections" /\ textChanged THEN <<>>
                 ELSE held
           [] p \in Range(InitTemplateTs) ->
                 IF templateChanged THEN <<>>
                 ELSE IF scriptChanged THEN <<held[1]>>
                 ELSE held
           [] p \in Range(InitScriptTs) -> IF scriptChanged THEN <<>> ELSE held

\* diag[0].value of producer p when the computed it reads yields errors
ValueFrom(p, d, noUnused, setupReturns, errors) ==
    CASE p = "style" -> useStylesValidation(errors, StyleSourceMaps(d))
      [] p = "template" -> useTemplateValidation(d, errors)
      [] p = "scriptExist" -> errors.value
      [] p \in Range(InitTemplateTs) ->
            useTemplateScriptValidation(d, ModeOf(p), Range(setupReturns), errors)
      [] p \in Range(InitScriptTs) ->
            useScriptValidation(d, DocumentOf(p, d, noUnused), ModeOf(p), p = "S4", errors)

\* dedupe.withDiagnostics is not part of the sources at hand; modelled from the
\* specification: of the diagnostics with one {range, message, severity} triple
\* the first is kept.
SameTriple(a, b) ==
    a.range = b.range /\ a.message = b.message /\ a.severity = b.severity

RECURSIVE withDiagnostics(_)
withDiagnostics(items) ==
    IF items = <<>> THEN <<>>
    ELSE LET rest == withDiagnostics(SubSeq(items, 1, Len(items) - 1))
             last == items[Len(items)]
         IN  IF \E i \in 1..Len(rest) : SameTriple(rest[i], last)
             THEN rest ELSE Append(rest, last)

\* ---------------------------------------------------------- scheduling
RECURSIVE InsertByCost(_, _, _)
\* p placed after every element of the sorted s whose cost is <= p's
InsertByCost(s, p, r) ==
    IF s = <<>> THEN <<p>>
    ELSE IF r[Head(s)].cost <= r[p].cost THEN <<Head(s)>> \o InsertByCost(Tail(s), p, r)
    ELSE <<p>> \o s

\* a mutant of the sort: the family keeps its order
SortByCostNone(s, r) == s

RECURSIVE SortByCost(_, _)
\* arr.sort((a, b) => a[2] - b[2]): a stable sort by ascending cost
SortByCost(s, r) ==
    IF s = <<>> THEN <<>>
    ELSE InsertByCost(SortByCost(SubSeq(s, 1, Len(s) - 1), r), s[Len(s)], r)

\* a mutant of the run lists: the other family is executed also when
\* withSideEffect is false
RunListsNoHold(changed, withSideEffect, sTs, tTs) ==
    IF changed.script \/ changed.scriptSetup
    THEN [all |-> nonTs \o sTs \o tTs, keep |-> <<>>]
    ELSE IF changed.template
    THEN [all |-> nonTs \o tTs \o sTs, keep |-> <<>>]
    ELSE [all |-> nonTs \o sTs \o tTs, keep |-> <<>>]

\* a mutant of the run lists: the template-script family is tested first
RunListsTemplateFirst(changed, withSideEffect, sTs, tTs) ==
    IF changed.template
    THEN [all |-> nonTs \o tTs \o (IF withSideEffect THEN sTs ELSE <<>>),
          keep |-> IF withSideEffect THEN <<>> ELSE sTs]
    ELSE IF changed.script \/ changed.scriptSetup
    THEN [all |-> nonTs \o sTs \o (IF withSideEffect THEN tTs ELSE <<>>),
          keep |-> IF withSideEffect THEN <<>> ELSE tTs]
    ELSE [all |-> nonTs \o (IF withSideEffect THEN sTs \o tTs ELSE <<>>),
          keep |-> IF withSideEffect THEN <<>> ELSE sTs \o tTs]

\* the lists all and keep built at the start of a run
RunLists(changed, withSideEffect, sTs, tTs) ==
    IF changed.script \/ changed.scriptSetup
    THEN [all |-> nonTs \o sTs \o (IF withSideEffect THEN tTs ELSE <<>>),
          keep |-> IF withSideEffect THEN <<>> ELSE tTs]
    ELSE IF changed.template
    THEN [all |-> nonTs \o tTs \o (IF withSideEffect THEN sTs ELSE <<>>),
          keep |-> IF withSideEffect THEN <<>> ELSE sTs]
    ELSE [all |-> nonTs \o (IF withSideEffect THEN sTs \o tTs ELSE <<>>),
          keep |-> IF withSideEffect THEN <<>> ELSE sTs \o tTs]

\* a mutant of the cancellation test: the poll's answer is dropped
CancelledNever(answer) == FALSE

\* if (await isCancel?.()) return
Cancelled(answer) == answer

\* a mutant of the store: the cost is stored, the result is not
StoreCostOnly(r, p, value, cost) == [r EXCEPT ![p].cost = cost]

\* a mutant of the store: the value is stored for every producer of the family
\* of p, as if the family were computed at once
StoreFamily(r, p, value, cost) ==
    [q \in DOMAIN r |->
        IF q = p \/ \E family \in {Range(InitScriptTs), Range(InitTemplateTs)} :
                        p \in family /\ q \in family
        THEN [result |-> value, cost |-> cost] ELSE r[q]]

\* a mutant of the store: the cost is averaged with the cost stored before
StoreAveraged(r, p, value, cost) ==
    [r EXCEPT ![p] = [result |-> value, cost |-> (r[p].cost + cost) \div 2]]

\* diag[1] = diag[0].value; diag[2] = Date.now() - startTime
Store(r, p, value, cost) == [r EXCEPT ![p] = [result |-> value, cost |-> cost]]

\* a mutant of the batch: the held producers are left out
BatchSourcesAllOnly(all, keep) == all

\* [...all, ...keep]
BatchSources(all, keep) == all \o keep

\* a mutant of the batch: the results are delivered as they are
BatchRaw(all, keep, r) ==
    Flat([i \in 1..Len(BatchSources(all, keep)) |-> r[BatchSources(all, keep)[i]].result])

\* dedupe.withDiagnostics([...all, ...keep].map(diag => diag[1]).flat())
Batch(all, keep, r) ==
    withDiagnostics(
        Flat([i \in 1..Len(BatchSources(all, keep)) |-> r[BatchSources(all, keep)[i]].result]))

\* ------------------------------------------------------------ ref sugar
\* The command works on the text of the document, given here as a sequence of
\* symbols, each standing for one piece of text that the edits take or leave
\* whole; an offset is an index of the sequence and a range [start, end) holds
\* the symbols start..end-1. TextEdit.replace(range, newText):
Edit(s, e, new) == [start |-> s, end |-> e, newText |-> new]

\* The client applies the edits of one request to the text it holds, at the
\* offsets the request names, all at once; an insertion at an offset comes
\* before what replaces the symbol at the offset, and an offset behind the end
\* of the text stands for the end.
ApplyEdits(t, edits) ==
    LET at(o) == IF o > Len(t) + 1 THEN Len(t) + 1 ELSE o IN
    Flat([i \in 1..Len(t) + 1 |->
        Flat([k \in 1..Len(edits) |->
                IF at(edits[k].start) = i /\ at(edits[k].end) = i
                THEN edits[k].newText ELSE <<>>])
        \o Flat([k \in 1..Len(edits) |->
                IF at(edits[k].start) = i /\ at(edits[k].end) > i
                THEN edits[k].newText ELSE <<>>])
        \o (IF i <= Len(t) /\ ~\E k \in 1..Len(edits) :
                                  at(edits[k].start) <= i /\ i < at(edits[k].end)
            THEN <<t[i]>> ELSE <<>>)])

\* the first offset from i on at which the text holds a symbol of syms, 0 if none
FirstOf(t, syms, i) ==
    IF \E j \in i..Len(t) : t[j] \in syms
    THEN CHOOSE j \in i..Len(t) : t[j] \in syms /\ \A k \in i..(j - 1) : t[k] \notin syms
    ELSE 0

\* vueSfc.parse for a document given as symbols: a section for each opening
\* tag the text holds, its content the symbols between the tag and the first
\* closing tag behind it (the end of the text when the tag is not closed), its
\* range the offset behind the opening tag and the offset of the closing tag
SugarParse(t) ==
    LET block(opening, closing) ==
            LET open == FirstOf(t, opening, 1)
                close == FirstOf(t, {closing}, open + 1)
                end == IF close = 0 THEN Len(t) + 1 ELSE close
            IN  IF open = 0 THEN <<>>
                ELSE <<Blk(SubSeq(t, open + 1, end - 1),
                           IF t[open] = "<template lang=\"pug\">" THEN <<"pug">> ELSE <<>>,
                           open + 1, end)>>
    IN  [template |-> block({"<template>", "<template lang=\"pug\">"}, "</template>"),
         script |-> block({"<script>"}, "</script>"),
         scriptSetup |-> block({"<script setup>"}, "</script>"),
         styles |-> <<>>, customBlocks |-> <<>>, ignoreComments |-> {}]

\* The script-setup generator and findReferences are not part of the sources at
\* hand; what they give the command is modelled from the specification. A
\* label is a statement ref: x = e; a ref call is a statement const x = ref(e).
\* The generator is given the content of the block, and the ranges it yields
\* count from the start of the content (the first symbol is at 0).
Names == {"x"}
Expressions == {"1", "computed()"}

\* genData.data.labels for the content c
Labels(c) ==
    LET i == FirstOf(c, {"ref"}, 1)
        name == FirstOf(c, Names, i + 1)
        right == FirstOf(c, Expressions, name + 1)
    IN  IF i = 0 \/ name = 0 \/ right = 0 THEN <<>>
        ELSE <<[label |-> [start |-> i - 1, end |-> i],
                right |-> [start |-> right - 1, end |-> right,
                           isComputedCall |-> c[right] = "computed()"],
                vars |-> <<[start |-> name - 1, end |-> name]>>]>>

\* genData.data.refCalls for the content c
RefCalls(c) ==
    LET i == FirstOf(c, {"const"}, 1)
        name == FirstOf(c, Names, i + 1)
        call == FirstOf(c, {"ref("} \cup Expressions, name + 1)
    IN  IF i = 0 \/ name = 0 \/ call = 0 \/ call + 2 > Len(c) THEN <<>>
        ELSE IF c[call] # "ref(" \/ c[call + 2] # ")" THEN <<>>
        ELSE <<[start |-> i - 1, end |-> call + 2,
                left |-> [start |-> name - 1, end |-> name],
                rightExpression |-> [start |-> call, end |-> call + 1],
                vars |-> <<[start |-> name - 1, end |-> name]>>]>>

\* _findReferences(document, varRange.start): the ranges of the uses of the
\* name and of its declaration anywhere in the document, in the order of the
\* text
References(t, var) ==
    SelectSeq([j \in 1..Len(t) |-> [start |-> j, end |-> j + 1]],
              LAMBDA r : t[r.start] \in {t[var.start], "$" \o t[var.start]})

\* the references that get an edit: the declaration is skipped, and so is a
\* reference that does not lie in the script-setup block
UsesOf(t, loc, var) ==
    SelectSeq(References(t, var),
              LAMBDA r : /\ ~(r.start = var.start /\ r.end = var.end)
                         /\ r.start >= loc.start /\ r.end <= loc.end)

\* the edits that import ref: the completion entry of ref carries one when the
\* block does not import ref, and it is kept when the source map maps its
\* range, to the start of the block
ImportEdits(t, loc, mapped) ==
    IF FirstOf(SubSeq(t, loc.start, loc.end - 1), {"import"}, 1) = 0 /\ mapped
    THEN <<Edit(loc.start, loc.start, <<"import", ";">>)>>
    ELSE <<>>

\* unuse ref sugar
UnuseEdits(t, loc, mapped) ==
    LET labels == Labels(SubSeq(t, loc.start, loc.end - 1)) IN
    Flat([l \in 1..Len(labels) |->
        LET label == labels[l] IN
        <<Edit(loc.start + label.label.start, loc.start + label.label.end + 1, <<"const">>)>>
        \o (IF ~label.right.isComputedCall
            THEN <<Edit(loc.start + label.right.start, loc.start + label.right.start,
                        <<"ref(">>),
                   Edit(loc.start + label.right.end, loc.start + label.right.end, <<")">>)>>
            ELSE <<>>)
        \o Flat([v \in 1..Len(label.vars) |->
              LET varRange == [start |-> loc.start + label.vars[v].start,
                               end |-> loc.start + label.vars[v].end]
                  varText == t[varRange.start]
                  uses == UsesOf(t, loc, varRange)
              IN  [u \in 1..Len(uses) |->
                     IF "$" \o varText = t[uses[u].start]
                     THEN Edit(uses[u].start, uses[u].end, <<varText>>)
                     ELSE Edit(uses[u].start, uses[u].end, <<varText, ".value">>)]])])
    \o ImportEdits(t, loc, mapped)

\* use ref sugar
UseEdits(t, loc) ==
    LET refCalls == RefCalls(SubSeq(t, loc.start, loc.end - 1)) IN
    Flat([c \in 1..Len(refCalls) |->
        LET refCall == refCalls[c]
            left == t[loc.start + refCall.left.start]
            right == t[loc.start + refCall.rightExpression.start]
        IN
        <<Edit(loc.start + refCall.start, loc.start + refCall.end,
               <<"ref", ":", " ", left, " ", "=", " ", right>>)>>
        \o Flat([v \in 1..Len(refCall.vars) |->
              LET varRange == [start |-> loc.start + refCall.vars[v].start,
                               end |-> loc.start + refCall.vars[v].end]
                  varText == t[varRange.start]
                  uses == UsesOf(t, loc, varRange)
              IN  [u \in 1..Len(uses) |->
                     IF uses[u].end <= Len(t) /\ t[uses[u].end] = ".value"
                     THEN Edit(uses[u].start, uses[u].end + 1, <<varText>>)
                     ELSE Edit(uses[u].start, uses[u].end, <<"$" \o varText>>)]])])

\* what the handler of SWITCH_REF_SUGAR sends for the document t of a source
\* file with descriptor desc: <<edits>>, the edits of its one applyEdit
\* request, or <<>> when it returns before it sends one (no script-setup
\* section, no script-setup data, or, with labels, no generated script)
SwitchRefSugarEdits(desc, t, mapped) ==
    IF desc.scriptSetup = <<>> THEN <<>>
    ELSE LET loc == [start |-> desc.scriptSetup[1].start, end |-> desc.scriptSetup[1].end]
         IN  IF Len(Labels(SubSeq(t, loc.start, loc.end - 1))) > 0
             THEN IF ScriptDocument(desc) = <<>> THEN <<>>
                  ELSE <<UnuseEdits(t, loc, mapped)>>
             ELSE <<UseEdits(t, loc)>>

\* the text once the client has applied the request that the command sends for
\* the text t and the source file made of t
SwitchedText(t, mapped) ==
    LET edits == SwitchRefSugarEdits(UpdateDescriptor(EmptyDescriptor, SugarParse(t), 0),
                                     t, mapped)
    IN  IF edits = <<>> THEN t ELSE ApplyEdits(t, edits[1])

\* @volar/pug is external: htmlToPug gives the markup as piped text without
\* its line breaks, pugToHtml gives the text behind the pipe
htmlToPug(content) == <<"|", " ">> \o SelectSeq(content, LAMBDA sym : sym # "\n")

pugToHtml(content) == SelectSeq(content, LAMBDA sym : sym \notin {"|", " ", "\n"})

\* what the handler of HTML_TO_PUG (from = "html") or of PUG_TO_HTML (from =
\* "pug") sends for the document t of a source file with descriptor desc:
\* <<edits>>, the one edit of its applyEdit request, which replaces the text
\* from the opening tag of the template to the end of its content, or <<>>
\* when it returns before it sends one (no template, or a template in another
\* language) or throws (no opening tag found at or before the symbol in front
\* of the content)
ConvertEdits(desc, t, from) ==
    IF desc.template = <<>> THEN <<>>
    ELSE IF desc.template[1].lang # from THEN <<>>
    ELSE LET newTemplate ==
                 IF from = "html"
                 THEN <<"<template lang=\"pug\">">> \o htmlToPug(desc.template[1].content)
                      \o <<"\n">>
                 ELSE <<"<template>", "\n">> \o pugToHtml(desc.template[1].content)
             starts == {i \in 1..(desc.template[1].start - 1) :
                            i <= Len(t) /\ t[i] \in {"<template>", "<template lang=\"pug\">"}}
         IN  IF starts = {} THEN <<>>
             ELSE <<<<Edit(CHOOSE i \in starts : \A j \in starts : j <= i,
                           desc.template[1].end, newTemplate)>>>>

\* the documents the commands are executed on: a template in html or in pug
\* that refers to the name, or none; the block in script-setup tags or in
\* script tags, in it an import of ref or none, a label written with or
\* without blanks around = and up to MaxUses uses of the name; behind the
\* block a reference to the name or none
UseForms == {<<"x", ";">>, <<"$x", ";">>, <<"$x", ".value", ";">>, <<"x", ".value", ";">>}

RECURSIVE UseLists(_)
UseLists(n) ==
    IF n = 0 THEN {<<>>}
    ELSE UseLists(n - 1)
         \cup {us \o u : us \in UseLists(n - 1), u \in UseForms}

SugarTexts ==
    {template \o <<tag>> \o imp
     \o <<"ref", ":", " ", "x">> \o eq \o <<e, ";">> \o us \o <<"</script>">> \o behind :
        template \in {<<>>,
                      <<"<template>", "{{", "x", "}}", "</template>">>,
                      <<"<template lang=\"pug\">", "|", " ", "{{", "x", "}}", "\n",
                        "</template>">>},
        tag \in {"<script setup>", "<script>"},
        imp \in {<<>>, <<"import", ";">>},
        eq \in {<<" ", "=", " ">>, <<"=">>},
        e \in Expressions,
        us \in UseLists(MaxUses),
        behind \in {<<>>, <<"$x", ";">>}}

NoSugar == [original |-> <<>>, text |-> <<>>, pending |-> <<>>, toggles |-> 0,
            converts |-> 0, mapped |-> FALSE]

\* ------------------------------------------------------------------ state
VARIABLES
    vueDoc,             \* the text held by vueDoc, an index of Texts
    descriptor,         \* the reactive descriptor
    lastUpdateChanged,  \* the per-kind changed flags
    scriptGen,          \* virtualScriptGen.textDocument
    templateGen,        \* virtualTemplateGen.textDocument
    updateRet,          \* what the last call of update returned
    nCalls,             \* calls of update and getDiagnostics so far
    noUnused,           \* anyNoUnusedEnabled
    recs,               \* producer -> [result |-> diag[1], cost |-> diag[2]]
    scriptTs,           \* the array scriptTs
    templateTs,         \* the array templateTs
    runs,               \* the calls of getDiagnostics in progress, or just ended
    remap,              \* a call of toTsSourceDiags: its arguments and its result
    templateScriptData, \* the reactive templateScriptData
    project,            \* the state of the host's project, an index of Projects
    crossRet,           \* what the last call of updateTemplateScript did
    sugar,              \* the document SWITCH_REF_SUGAR is executed on
    measured,           \* producer -> Date.now() - startTime of its last execution
    memo,               \* producer -> what the computeds its diag[0] reads hold
    tsProjectVersion,   \* the ref tsProjectVersion
    selection,          \* the selection-range query followed and what it returned
    nCostly,            \* executions so far that measured a non-zero time
    completion          \* what the last call of getComponentCompletionData returned

vars == <<vueDoc, descriptor, lastUpdateChanged, scriptGen, templateGen, updateRet,
          nCalls, noUnused, recs, scriptTs, templateTs, runs, remap,
          templateScriptData, project, crossRet, sugar, measured, memo,
          tsProjectVersion, selection, dtsMode, nCostly, completion>>

sourceVars == <<vueDoc, descriptor, lastUpdateChanged, scriptGen, templateGen,
                updateRet>>
engineVars == <<recs, scriptTs, templateTs, runs, measured>>
crossVars == <<templateScriptData, project, crossRet>>
memoVars == <<memo, tsProjectVersion>>

\* A call of getDiagnostics takes a slot and keeps it until a later call takes
\* it over; slot B is taken only by a call made while the call in A is suspended.
RunIds == {"A", "B"}

Active(r) == runs[r].pc = "poll"

IdleRun ==
    [pc |-> "idle", withSideEffect |-> TRUE, all |-> <<>>, keep |-> <<>>,
     executed |-> <<>>, polls |-> 0, polledTrue |-> FALSE, nBatches |-> 0,
     batch |-> <<>>]

NoReturn == [called |-> FALSE, sameText |-> FALSE, scriptUpdated |-> FALSE,
             templateScriptUpdated |-> FALSE]

\* getComponentCompletionData was not called
NoCompletion == [called |-> FALSE, data |-> {}]

\* createSourceFile(initialDocument): the constructor runs update(initialDocument)
\* on the empty descriptor and then useDiagnostics(); t is the document and
\* parsed what the parsers return for it
ConstructedFrom(t, parsed) ==
    /\ vueDoc = t
    /\ descriptor = UpdateDescriptor(EmptyDescriptor, parsed, 0)
    /\ lastUpdateChanged = ChangedFlags(EmptyDescriptor, parsed)
    /\ scriptGen = Regenerate(NoDocument,
                              ScriptGenText(UpdateDescriptor(EmptyDescriptor, parsed, 0)))
    /\ templateGen = Regenerate(NoDocument,
                                TemplateGenText(UpdateDescriptor(EmptyDescriptor, parsed, 0)))
    /\ updateRet = NoReturn
    /\ nCalls = 0
    /\ noUnused \in BOOLEAN
    /\ recs = [p \in Producers |-> [result |-> <<>>, cost |-> 0]]
    /\ measured = [p \in Producers |-> 0]
    /\ memo = [p \in Producers |-> <<>>]
    /\ tsProjectVersion = <<>>
    /\ nCostly = 0
    /\ completion = NoCompletion
    /\ scriptTs = InitScriptTs
    /\ templateTs = InitTemplateTs
    /\ runs = [r \in RunIds |-> IdleRun]

\* the source file constructed from text t of Texts
Constructed(t) == ConstructedFrom(t, Texts[t])

\* no selection-range query is followed
NoSelection == [applied |-> FALSE, uri |-> "", positions |-> <<>>, sourceFile |-> <<>>,
                result |-> <<>>]

\* no call of toTsSourceDiags is followed
NoRemap == [applied |-> FALSE, errors |-> <<>>, virtualScriptUri |-> "", sourceMaps |-> <<>>,
            result |-> <<>>]

\* updateTemplateScript was not called
NoCrossRet == [called |-> FALSE, result |-> FALSE, harvested |-> FALSE, regenerated |-> FALSE]

\* the cross-reference data as constructed, under a host that gives no project
\* version
CrossConstructed ==
    /\ templateScriptData = InitTemplateScriptData
    /\ project = 1
    /\ crossRet = NoCrossRet

Init == remap = NoRemap /\ CrossConstructed /\ sugar = NoSugar /\ selection = NoSelection /\ dtsMode = FALSE /\ \E t \in EngineTexts : Constructed(t)

\* update(newVueDocument) in the source file: t is the document and p what the
\* parsers return for it
Updated(t, p) ==
    /\ nCalls < MaxCalls
    /\ LET d == UpdateDescriptor(descriptor, p, nCalls + 1)
           sg == Regenerate(scriptGen, ScriptGenText(d))
           tg == Regenerate(templateGen, TemplateGenText(d))
       IN  /\ descriptor' = d
           /\ lastUpdateChanged' = ChangedFlags(descriptor, p)
           /\ scriptGen' = sg
           /\ templateGen' = tg
           /\ memo' = [q \in Producers |->
                          Kept(q, memo[q], descriptor, d, sg # scriptGen, tg # templateGen,
                               t # vueDoc)]
           /\ vueDoc' = IF t # vueDoc THEN t ELSE vueDoc
           /\ updateRet' = [called |-> TRUE, sameText |-> (t = vueDoc)]
                           @@ UpdateReturn(<<VersionOf(scriptGen), VersionOf(templateGen)>>,
                                           <<VersionOf(sg), VersionOf(tg)>>)
    /\ nCalls' = nCalls + 1

\* update(newVueDocument) with text t of Texts
Update(t) ==
    /\ Updated(t, Texts[t])
    /\ UNCHANGED <<noUnused, dtsMode, nCostly, completion, engineVars, remap, crossVars, sugar, selection, tsProjectVersion>>

\* tsProjectVersion.value = token: the computeds that read tsProjectVersion are
\* dropped when the token is another one than the version held
Rewatched(held, version, token) ==
    [q \in Producers |->
        IF q \in TsProducers /\ Watching(ModeOf(q)) /\ token # version
        THEN <<>> ELSE held[q]]

\* getDiagnostics(response, isCancel, withSideEffect) up to its first await:
\* tsProjectVersion is set to the host's token, which invalidates the errors
\* that depend on it when the token is another one, the two families are sorted
\* in place, all and keep are built, isCancel is called
StartRun(r, withSideEffect) ==
    /\ nCalls < MaxCalls
    /\ nCalls' = nCalls + 1
    /\ ~Active(r)
    /\ IF r = "B" THEN Active("A") ELSE TRUE
    /\ LET tTs == SortByCost(templateTs, recs)
           sTs == SortByCost(scriptTs, recs)
           lists == RunLists(lastUpdateChanged, withSideEffect, sTs, tTs)
       IN  /\ templateTs' = tTs
           /\ scriptTs' = sTs
           /\ runs' = [runs EXCEPT ![r] =
                          [IdleRun EXCEPT !.pc = "poll", !.withSideEffect = withSideEffect,
                                          !.all = lists.all, !.keep = lists.keep]]
    /\ tsProjectVersion' = Projects[project].version
    /\ memo' = Rewatched(memo, tsProjectVersion, Projects[project].version)
    /\ UNCHANGED <<sourceVars, noUnused, dtsMode, nCostly, completion, recs, remap, crossVars, sugar, selection, measured>>

\* a mutant of the loop: all holds the family arrays themselves, so that the
\* loop reads the element a later sort has put at its position
CurrentLive(run, sTs, tTs) ==
    LET i == Len(run.executed) + 1
        family == IF run.all[i] \in Range(sTs) THEN sTs
                  ELSE IF run.all[i] \in Range(tTs) THEN tTs ELSE nonTs
        first == CHOOSE j \in 1..Len(run.all) :
                    /\ run.all[j] \in Range(family)
                    /\ \A k \in 1..(j - 1) : run.all[k] \notin Range(family)
    IN  family[i - first + 1]

\* for (const diag of all): the producer of the iteration the run is at; all is
\* the array concat returned when the run started, the families sTs and tTs
\* as they are sorted now are not read
Current(run, sTs, tTs) == run.all[Len(run.executed) + 1]

\* one iteration of the loop from the point where the awaited poll resolves with
\* answer: return when cancelled, else execute the producer, store its result and
\* cost, deliver the batch and, when a producer is left, call isCancel again;
\* cost is the time measured, non-zero in at most MaxCostly executions
Step(r, answer, cost) ==
    /\ runs[r].pc = "poll"
    /\ cost > 0 => nCostly < MaxCostly
    /\ nCostly' = IF cost > 0 THEN nCostly + 1 ELSE nCostly
    /\ IF Cancelled(answer)
       THEN /\ cost = 0
            /\ runs' = [runs EXCEPT ![r].pc = "cancelled", ![r].polls = @ + 1,
                                    ![r].polledTrue = answer]
            /\ UNCHANGED <<recs, measured, memo>>
       ELSE LET run == runs[r]
                p == Current(run, scriptTs, templateTs)
                errors == ErrorsValue(memo, p, descriptor, noUnused, project)
                rs == Store(recs, p, ValueFrom(p, descriptor, noUnused,
                                               templateScriptData.setupReturns, errors), cost)
            IN  /\ recs' = rs
                /\ memo' = IF ReadsErrors(p, descriptor, noUnused)
                           THEN [memo EXCEPT ![p] =
                                    Held(p, descriptor, templateScriptData.setupReturns,
                                         errors)]
                           ELSE memo
                /\ measured' = [measured EXCEPT ![p] = cost]
                /\ runs' = [runs EXCEPT
                       ![r].executed = Append(@, p),
                       ![r].polls = @ + 1,
                       ![r].polledTrue = answer,
                       ![r].nBatches = @ + 1,
                       ![r].batch = Batch(run.all, run.keep, rs),
                       ![r].pc = IF Len(run.executed) + 1 = Len(run.all)
                                 THEN "done" ELSE "poll"]
    /\ UNCHANGED <<sourceVars, nCalls, noUnused, dtsMode, completion, scriptTs, templateTs,
                   remap, crossVars, sugar, selection, tsProjectVersion>>

\* calls of getDiagnostics that do not overlap: a call is made when the one
\* before it has returned or is left suspended for good
Next ==
    \/ \E t \in EngineTexts : Update(t)
    \/ \E w \in BOOLEAN : StartRun("A", w)
    \/ \E answer \in BOOLEAN, cost \in 0..MaxCost : Step("A", answer, cost)

Spec == Init /\ [][Next]_vars

\* the section state alone, over every text
InitSource == remap = NoRemap /\ CrossConstructed /\ sugar = NoSugar /\ selection = NoSelection /\ dtsMode = FALSE /\ \E t \in TextIds : Constructed(t)

NextSource == \E t \in TextIds : Update(t)

SpecSource == InitSource /\ [][NextSource]_vars

\* calls of getDiagnostics that overlap: a second call is made while the first
\* is suspended at its poll, and the two resume in any order
InitOverlap ==
    /\ remap = NoRemap
    /\ CrossConstructed /\ sugar = NoSugar /\ selection = NoSelection
    /\ dtsMode = FALSE
    /\ Constructed(1)
    /\ noUnused = TRUE

NextOverlap ==
    \/ Update(2)
    \/ \E r \in RunIds, w \in BOOLEAN : StartRun(r, w)
    \/ \E r \in RunIds, answer \in BOOLEAN, cost \in 0..MaxCost : Step(r, answer, cost)

SpecOverlap == InitOverlap /\ [][NextOverlap]_vars

\* one iteration of the loop in which the engine the producer calls throws: the
\* exception leaves diag[0].value and the loop, nothing is stored or delivered
\* and the promise of the call is rejected
Throw(r) ==
    /\ runs[r].pc = "poll"
    /\ EngineCalled(runs[r].all[Len(runs[r].executed) + 1], descriptor, noUnused)
    /\ memo[runs[r].all[Len(runs[r].executed) + 1]] = <<>>
    /\ runs' = [runs EXCEPT ![r].pc = "rejected", ![r].polls = @ + 1]
    /\ UNCHANGED <<sourceVars, nCalls, noUnused, dtsMode, nCostly, completion, recs, scriptTs, templateTs, remap,
                   crossVars, sugar, selection, measured, memoVars>>

\* one iteration of the loop in which a producer of the template script is
\* executed and tsLanguageService.findDefinition throws: errors_1 was evaluated
\* before and is held, errors_2 is not, nothing is stored or delivered and the
\* promise of the call is rejected
DefinitionThrow(r) ==
    /\ runs[r].pc = "poll"
    /\ LET p == runs[r].all[Len(runs[r].executed) + 1]
           errors_1 == ErrorsValue(memo, p, descriptor, noUnused, project)
       IN  /\ p \in Range(InitTemplateTs)
           /\ ~ignoreTemplateCheck(descriptor)
           /\ TemplateDocument(descriptor) # <<>>
           /\ ScriptDocument(descriptor) # <<>>
           /\ Len(memo[p]) < 2
           /\ \E i \in 1..Len(errors_1) :
                 /\ SpanText(errors_1[i]) \in Range(templateScriptData.setupReturns)
                 /\ \E k \in 1..Len(TeleportRanges(errors_1[i])) :
                       ~TeleportRanges(errors_1[i])[k].isAdditionalReference
           /\ memo' = [memo EXCEPT ![p] = <<errors_1>>]
    /\ runs' = [runs EXCEPT ![r].pc = "rejected", ![r].polls = @ + 1]
    /\ UNCHANGED <<sourceVars, nCalls, noUnused, dtsMode, nCostly, completion, recs,
                   scriptTs, templateTs, remap, crossVars, sugar, selection, measured,
                   tsProjectVersion>>

\* one iteration of the loop in which the template producer is executed and
\* vueSfc.compileTemplate throws after it reported the first reported of its
\* errors: the error is caught inside the computed, which holds what was
\* collected, and the iteration goes on as any other: the result and the time
\* measured, cost, are stored and the batch is delivered
CompileThrow(r, reported, cost) ==
    /\ runs[r].pc = "poll"
    /\ cost > 0 => nCostly < MaxCostly
    /\ nCostly' = IF cost > 0 THEN nCostly + 1 ELSE nCostly
    /\ runs[r].all[Len(runs[r].executed) + 1] = "template"
    /\ ReadsErrors("template", descriptor, noUnused)
    /\ memo["template"] = <<>>
    /\ CompiledErrors(descriptor) # <<>>
    /\ reported <= Len(CompiledErrors(descriptor)[1])
    /\ LET run == runs[r]
           errors == TemplateErrors(descriptor, reported, TRUE)
           rs == Store(recs, "template", useTemplateValidation(descriptor, errors), cost)
       IN  /\ recs' = rs
           /\ memo' = [memo EXCEPT !["template"] = <<errors>>]
           /\ measured' = [measured EXCEPT !["template"] = cost]
           /\ runs' = [runs EXCEPT
                  ![r].executed = Append(@, "template"),
                  ![r].polls = @ + 1,
                  ![r].nBatches = @ + 1,
                  ![r].batch = Batch(run.all, run.keep, rs),
                  ![r].pc = IF Len(run.executed) + 1 = Len(run.all)
                            THEN "done" ELSE "poll"]
    /\ UNCHANGED <<sourceVars, nCalls, noUnused, dtsMode, completion, scriptTs,
                   templateTs, remap, crossVars, sugar, selection, tsProjectVersion>>

\* runs on sources that lack sections
AbsentTexts == {2, 7, 8}

InitAbsent ==
    /\ remap = NoRemap
    /\ CrossConstructed /\ sugar = NoSugar /\ selection = NoSelection
    /\ dtsMode \in BOOLEAN
    /\ \E t \in AbsentTexts : Constructed(t)
    /\ noUnused = FALSE

NextAbsent ==
    \/ \E t \in AbsentTexts : Update(t)
    \/ \E w \in BOOLEAN : StartRun("A", w)
    \/ \E answer \in BOOLEAN : Step("A", answer, 0)

SpecAbsent == InitAbsent /\ [][NextAbsent]_vars

\* SWITCH_REF_SUGAR executed on the document: the handler computes the edits
\* from the text the document holds and the descriptor of its source file,
\* sends them with connection.workspace.applyEdit and returns; it does not
\* wait for the answer, and the text is not changed by it
SwitchRefSugar ==
    /\ sugar.toggles + sugar.converts < MaxToggles
    /\ sugar' = [sugar EXCEPT
                    !.pending = @ \o SwitchRefSugarEdits(descriptor, sugar.text, sugar.mapped),
                    !.toggles = @ + 1]
    /\ UNCHANGED <<sourceVars, nCalls, noUnused, dtsMode, nCostly, completion, engineVars, remap, crossVars, memoVars,
                   selection>>

\* HTML_TO_PUG executed on the document: the handler sends the edit that
\* replaces the template and returns
HtmlToPug ==
    /\ sugar.toggles + sugar.converts < MaxToggles
    /\ sugar' = [sugar EXCEPT
                    !.pending = @ \o ConvertEdits(descriptor, sugar.text, "html"),
                    !.converts = @ + 1]
    /\ UNCHANGED <<sourceVars, nCalls, noUnused, dtsMode, nCostly, completion, engineVars, remap, crossVars, memoVars,
                   selection>>

\* PUG_TO_HTML executed on the document
PugToHtml ==
    /\ sugar.toggles + sugar.converts < MaxToggles
    /\ sugar' = [sugar EXCEPT
                    !.pending = @ \o ConvertEdits(descriptor, sugar.text, "pug"),
                    !.converts = @ + 1]
    /\ UNCHANGED <<sourceVars, nCalls, noUnused, dtsMode, nCostly, completion, engineVars, remap, crossVars, memoVars,
                   selection>>

\* the client applies the edits of the oldest request not yet applied; when
\* they change the text, the document changes and the source file is updated
\* with it
ApplyEdit ==
    /\ sugar.pending # <<>>
    /\ LET t == ApplyEdits(sugar.text, Head(sugar.pending))
       IN  /\ sugar' = [sugar EXCEPT !.text = t, !.pending = Tail(@)]
           /\ IF t = sugar.text THEN UNCHANGED <<sourceVars, nCalls, memo>>
              ELSE Updated(t, SugarParse(t))
    /\ UNCHANGED <<noUnused, dtsMode, nCostly, completion, engineVars, remap, crossVars, tsProjectVersion,
                   selection>>

InitSugar ==
    /\ \E t \in SugarTexts, mapped \in BOOLEAN :
          /\ ConstructedFrom(t, SugarParse(t))
          /\ sugar = [original |-> t, text |-> t, pending |-> <<>>, toggles |-> 0,
                      converts |-> 0, mapped |-> mapped]
    /\ noUnused = FALSE
    /\ remap = NoRemap
    /\ selection = NoSelection
    /\ dtsMode = FALSE
    /\ CrossConstructed

NextSugar ==
    \/ SwitchRefSugar
    \/ HtmlToPug
    \/ PugToHtml
    \/ ApplyEdit

SpecSugar == InitSugar /\ [][NextSugar]_vars

\* the project changes under the host
HostChange(j) ==
    /\ j # project
    /\ project' = j
    /\ UNCHANGED <<sourceVars, nCalls, noUnused, dtsMode, nCostly, completion, engineVars, remap, templateScriptData,
                   crossRet, sugar, selection, memoVars>>

\* updateTemplateScript(): return when the stored token is the host's, else
\* store the token, harvest the names, return when every set is equal, else
\* store the names and the items and call virtualTemplateGen.update()
UpdateTemplateScript ==
    /\ templateScriptData' = UpdatedTemplateScriptData(templateScriptData, Projects[project])
    /\ crossRet' =
          [called |-> TRUE,
           harvested |-> templateScriptData.projectVersion # Projects[project].version,
           result |-> \E f \in NameSets : templateScriptData'[f] # templateScriptData[f],
           regenerated |-> \E f \in NameSets : templateScriptData'[f] # templateScriptData[f]]
    /\ memo' = [q \in Producers |->
                   IF /\ \E f \in NameSets : templateScriptData'[f] # templateScriptData[f]
                      /\ Len(memo[q]) = 2
                      /\ memo[q][1] # <<>>
                   THEN <<memo[q][1]>> ELSE memo[q]]
    /\ UNCHANGED <<sourceVars, nCalls, noUnused, dtsMode, nCostly, completion, engineVars,
                   remap, project, sugar, selection, tsProjectVersion>>

\* hyphenate(tagName): every capital behind the first character gets a hyphen
\* before it and the name is lowered; of the names of Projects
Hyphenate(tagName) ==
    CASE tagName = "Comp" -> "comp"
      [] tagName = "Other" -> "other"
      [] OTHER -> tagName

\* the computed result of useComponentCompletionData: the entries of the Map;
\* the engine completes nothing at the positions searched
ComponentCompletionData(d, data) ==
    IF TemplateDocument(d) # <<>> /\ d.template # <<>>
    THEN {[key |-> key, item |-> <<tag>>, bind |-> <<>>, on |-> <<>>, slot |-> <<>>] :
             <<key, tag>> \in
                UNION {{<<name, name>>, <<Hyphenate(name), name>>} :
                          name \in Range(data.componentItems)
                                   \cup Range(data.htmlElementItems)}}
         \cup {[key |-> "*", item |-> <<>>, bind |-> <<>>, on |-> <<>>, slot |-> <<>>]}
    ELSE {}

\* getComponentCompletionData(): tsProjectVersion is set to the host's token,
\* which invalidates the errors that depend on it when the token is another
\* one, and result.value is returned
GetComponentCompletionData ==
    /\ tsProjectVersion' = Projects[project].version
    /\ memo' = Rewatched(memo, tsProjectVersion, Projects[project].version)
    /\ completion' = [called |-> TRUE,
                      data |-> ComponentCompletionData(descriptor, templateScriptData)]
    /\ UNCHANGED <<sourceVars, nCalls, noUnused, dtsMode, nCostly, engineVars, remap,
                   crossVars, sugar, selection>>

\* runs in which an engine may throw, under a project whose setup returns the
\* name the template uses
FailureTexts == {3, 4}

InitFailure ==
    /\ remap = NoRemap
    /\ CrossConstructed /\ sugar = NoSugar /\ selection = NoSelection
    /\ dtsMode = FALSE
    /\ \E t \in FailureTexts : Constructed(t)
    /\ noUnused = FALSE

NextFailure ==
    \/ \E t \in FailureTexts : Update(t)
    \/ \E w \in BOOLEAN : StartRun("A", w)
    \/ \E answer \in BOOLEAN : Step("A", answer, 0)
    \/ Throw("A")
    \/ \E reported \in 0..MaxReported, cost \in 0..MaxCost : CompileThrow("A", reported, cost)
    \/ DefinitionThrow("A")
    \/ HostChange(3)
    \/ UpdateTemplateScript

SpecFailure == InitFailure /\ [][NextFailure]_vars

\* runs on sources with ignored sections, under a project whose setup returns
\* the name the template uses
IgnoreTexts == {9, 10, 11, 13}

InitIgnore ==
    /\ remap = NoRemap
    /\ CrossConstructed /\ sugar = NoSugar /\ selection = NoSelection
    /\ dtsMode = FALSE
    /\ \E t \in IgnoreTexts : Constructed(t)
    /\ noUnused = TRUE

NextIgnore ==
    \/ \E t \in IgnoreTexts : Update(t)
    \/ HostChange(3)
    \/ UpdateTemplateScript
    \/ StartRun("A", TRUE)
    \/ Step("A", FALSE, 0)

SpecIgnore == InitIgnore /\ [][NextIgnore]_vars

\* runs under a project whose other files change: the engine's answer for an
\* unchanged document is another one under the project state of token v6
MemoTexts == {1, 2, 5}

MemoProjects == {1, 7}

InitMemo ==
    /\ remap = NoRemap
    /\ CrossConstructed /\ sugar = NoSugar /\ selection = NoSelection
    /\ dtsMode = FALSE
    /\ \E t \in MemoTexts : Constructed(t)
    /\ noUnused = TRUE

NextMemo ==
    \/ \E t \in MemoTexts : Update(t)
    \/ \E j \in MemoProjects : HostChange(j)
    \/ StartRun("A", TRUE)
    \/ Step("A", FALSE, 0)
    \/ GetComponentCompletionData

SpecMemo == InitMemo /\ [][NextMemo]_vars

\* runs on sources with a pug template
PugTexts == {3, 4, 12}

InitPug ==
    /\ remap = NoRemap
    /\ CrossConstructed /\ sugar = NoSugar /\ selection = NoSelection
    /\ dtsMode = FALSE
    /\ \E t \in PugTexts : Constructed(t)
    /\ noUnused = FALSE

NextPug ==
    \/ \E t \in PugTexts : Update(t)
    \/ StartRun("A", TRUE)
    \/ Step("A", FALSE, 0)

SpecPug == InitPug /\ [][NextPug]_vars

\* the cross-reference data and the diagnostics that read it: the project
\* changes, updateTemplateScript is called, getDiagnostics is run
CrossRefTexts == {3, 6, 7}

\* the project states whose names differ
CrossRefProjects == 1..6

InitCrossRef ==
    /\ remap = NoRemap
    /\ CrossConstructed /\ sugar = NoSugar /\ selection = NoSelection
    /\ dtsMode = FALSE
    /\ \E t \in CrossRefTexts : Constructed(t)
    /\ noUnused = FALSE

NextCrossRef ==
    \/ \E j \in CrossRefProjects : HostChange(j)
    \/ UpdateTemplateScript
    \/ StartRun("A", TRUE)
    \/ Step("A", FALSE, 0)

SpecCrossRef == InitCrossRef /\ [][NextCrossRef]_vars

\* toTsSourceDiags alone, over source maps whose segments do not overlap in the
\* generated document: one script map of two segments, the second mapped to
\* source offsets before the first; a second script map of one segment over the
\* whole document; a template map
ScriptMap(capA, capB) ==
    SourceMapOf("script.ts", <<Seg(0, 2, 10, 12, capA), Seg(3, MaxPos, 4, 4 + (MaxPos - 3), capB)>>)

WholeMap(cap) == SourceMapOf("script.ts", <<Seg(0, MaxPos, 20, 20 + MaxPos, cap)>>)

TemplateMap == SourceMapOf("template.ts", <<Seg(1, 4, 30, 33, TRUE)>>)

RemapMaps ==
    {<<ScriptMap(a, b), TemplateMap>> : a, b \in BOOLEAN}
    \cup {<<ScriptMap(a, a), WholeMap(b)>> : a, b \in BOOLEAN}
    \cup {<<TemplateMap>>}

RemapErrors ==
    {<<Diag(s, e, "TS2322", "Error"), Diag(1, 4, "TS6133", "Error")>> :
        s \in 0..MaxPos, e \in 0..MaxPos}

InitRemap ==
    /\ Constructed(1)
    /\ CrossConstructed /\ sugar = NoSugar /\ selection = NoSelection
    /\ dtsMode = FALSE
    /\ \E errors \in {es \in RemapErrors : es[1].range[1] <= es[1].range[2]},
          uri \in {"script.ts", "template.ts"}, sourceMaps \in RemapMaps :
          remap = [NoRemap EXCEPT !.errors = errors, !.virtualScriptUri = uri,
                                  !.sourceMaps = sourceMaps]

\* toTsSourceDiags(errors, virtualScriptUri, sourceMaps)
Remap ==
    /\ ~remap.applied
    /\ remap' = [remap EXCEPT !.applied = TRUE,
                              !.result = toTsSourceDiags(remap.errors, remap.virtualScriptUri,
                                                         remap.sourceMaps)]
    /\ UNCHANGED <<sourceVars, nCalls, noUnused, dtsMode, nCostly, completion, engineVars, crossVars, sugar, selection, memoVars>>

NextRemap == Remap

SpecRemap == InitRemap /\ [][NextRemap]_vars

\* toSourceDiags alone, over the same errors, documents and source maps
\* toSourceDiags(errors, virtualScriptUri, sourceMaps)
RemapSource ==
    /\ ~remap.applied
    /\ remap' = [remap EXCEPT !.applied = TRUE,
                              !.result = toSourceDiags(remap.errors, remap.virtualScriptUri,
                                                       remap.sourceMaps)]
    /\ UNCHANGED <<sourceVars, nCalls, noUnused, dtsMode, nCostly, completion, engineVars, crossVars, sugar, selection, memoVars>>

NextRemapSource == RemapSource

SpecRemapSource == InitRemap /\ [][NextRemapSource]_vars

\* --------------------------------------------------------- selection ranges
\* a segment with the basic capability set or not
BasicSeg(ms, me, ss, se, basic) ==
    [mapped |-> <<ms, me>>, source |-> <<ss, se>>, diagnostic |-> TRUE, basic |-> basic]

\* SourceMap.getMappedRanges(position) is not part of the sources at hand;
\* modelled from the specification (point lookup by containment, one source
\* range may map to several mapped ranges): for each segment whose source range
\* contains the position, in order, the position carried over by offset with the
\* segment's data
getMappedRanges(segs, position) ==
    Flat([i \in 1..Len(segs) |->
            IF segs[i].source[1] <= position /\ position <= segs[i].source[2]
            THEN <<[start |-> segs[i].mapped[1] + (position - segs[i].source[1]),
                    basic |-> segs[i].basic]>>
            ELSE <<>>])

\* The engines are external: each answers with the first of its document's
\* nodes that contains the position, or with nothing.  No node spans two
\* segments' mapped ranges unless it leaves the mapped part of the document.
RECURSIVE FirstNode(_, _)
FirstNode(nodes, pos) ==
    IF nodes = <<>> THEN <<>>
    ELSE IF Head(nodes)[1] <= pos /\ pos <= Head(nodes)[2] THEN <<Head(nodes)>>
    ELSE FirstNode(Tail(nodes), pos)

\* tsLanguageService.getSelectionRange(uri, position): <<range>> or <<>>
getSelectionRange(uri, pos) ==
    IF uri = "script.ts" THEN FirstNode(<< <<0, 1>>, <<2, 4>>, <<5, 6>> >>, pos)
    ELSE FirstNode(<< <<0, 2>> >>, pos)

\* languageServices.html.getSelectionRanges(document, [position])
HtmlSelectionRanges(pos) == FirstNode(<< <<1, 2>>, <<3, 5>>, <<0, 4>> >>, pos)

\* languageServices.pug.getSelectionRanges(pugDocument, [position])
PugSelectionRanges(pos) == FirstNode(<< <<0, 0>>, <<1, 3>> >>, pos)

\* cssLanguageService.getSelectionRanges(document, [position], stylesheet)
CssSelectionRanges(pos) == FirstNode(<< <<0, 1>>, <<2, 4>> >>, pos)

\* the push of one selection range after sourceMap.getSourceRange
VueRangeOf(segs, selectRange) ==
    LET vueRange == getSourceRange(segs, selectRange[1], selectRange[2])
    IN  IF vueRange = <<>> THEN <<>>
        ELSE <<[range |-> <<vueRange[1].start, vueRange[1].end>>]>>

\* a mutant of the body of getTsResult's innermost loop: the capability of the
\* mapped range is not read
TsRangeResultAnyCapability(sourceMap, tsRange) ==
    LET selectRange == getSelectionRange(sourceMap.uri, tsRange.start)
    IN  IF selectRange = <<>> THEN <<>>
        ELSE VueRangeOf(sourceMap.segs, selectRange[1])

\* the body of getTsResult's innermost loop for one mapped range
TsRangeResult(sourceMap, tsRange) ==
    IF ~tsRange.basic THEN <<>>
    ELSE LET selectRange == getSelectionRange(sourceMap.uri, tsRange.start)
         IN  IF selectRange = <<>> THEN <<>>
             ELSE VueRangeOf(sourceMap.segs, selectRange[1])

getTsResult(sourceFile, positions) ==
    Flat([p \in 1..Len(positions) |->
        Flat([i \in 1..Len(sourceFile.tsSourceMaps) |->
            LET sourceMap == sourceFile.tsSourceMaps[i]
                tsRanges == getMappedRanges(sourceMap.segs, positions[p])
            IN  Flat([r \in 1..Len(tsRanges) |-> TsRangeResult(sourceMap, tsRanges[r])])])])

getHtmlResult(sourceFile, positions) ==
    Flat([p \in 1..Len(positions) |->
        LET sourceMaps == sourceFile.htmlSourceMaps \o sourceFile.pugSourceMaps
        IN  Flat([i \in 1..Len(sourceMaps) |->
                LET htmlRanges == getMappedRanges(sourceMaps[i].segs, positions[p])
                IN  Flat([r \in 1..Len(htmlRanges) |->
                        LET selectRanges == IF sourceMaps[i].language = "html"
                                            THEN HtmlSelectionRanges(htmlRanges[r].start)
                                            ELSE PugSelectionRanges(htmlRanges[r].start)
                        IN  Flat([s \in 1..Len(selectRanges) |->
                                    VueRangeOf(sourceMaps[i].segs, selectRanges[s])])])])])

getCssResult(sourceFile, positions) ==
    Flat([p \in 1..Len(positions) |->
        Flat([i \in 1..Len(sourceFile.cssSourceMaps) |->
            LET sourceMap == sourceFile.cssSourceMaps[i]
                cssRanges == getMappedRanges(sourceMap.segs, positions[p])
            IN  IF ~getCssLanguageService(sourceMap.languageId) \/ ~sourceMap.stylesheet
                THEN <<>>
                ELSE Flat([r \in 1..Len(cssRanges) |->
                        LET selectRanges == CssSelectionRanges(cssRanges[r].start)
                        IN  Flat([s \in 1..Len(selectRanges) |->
                                    VueRangeOf(sourceMap.segs, selectRanges[s])])])])])

\* a mutant of the returned array: the groups in the order of the calls
SelectionResultCallOrder(sourceFile, positions) ==
    getTsResult(sourceFile, positions) \o getHtmlResult(sourceFile, positions)
    \o getCssResult(sourceFile, positions)

\* [...cssResult, ...htmlResult, ...tsResult]
SelectionResult(sourceFile, positions) ==
    getCssResult(sourceFile, positions) \o getHtmlResult(sourceFile, positions)
    \o getTsResult(sourceFile, positions)

\* The source files a query meets.  The script section lies at 0..5 of the vue
\* document and is mapped twice in part (0..3 and 2..5), the template at 10..14,
\* two styles at 20..23 and 30..33.
SelectionTsMaps(b1, b2, b3) ==
    <<[uri |-> "script.ts", segs |-> <<BasicSeg(0, 3, 0, 3, b1), BasicSeg(5, 8, 2, 5, b2)>>],
      [uri |-> "template.ts", segs |-> <<BasicSeg(0, 4, 10, 14, b3)>>]>>

\* virtualTemplateRaw's html map, or its pug map
SelectionMarkupMap(language) ==
    IF language = "html"
    THEN [uri |-> "template.html", language |-> "html",
          segs |-> <<BasicSeg(0, 4, 10, 14, FALSE)>>]
    ELSE [uri |-> "template.pug.html", language |-> "pug",
          segs |-> <<BasicSeg(0, 3, 10, 13, FALSE)>>]

SelectionCssMaps(languageId, stylesheet) ==
    <<[uri |-> "style.1.css", languageId |-> languageId, stylesheet |-> stylesheet,
       segs |-> <<BasicSeg(0, 3, 20, 23, FALSE)>>],
      [uri |-> "style.2.css", languageId |-> "scss", stylesheet |-> TRUE,
       segs |-> <<BasicSeg(0, 3, 30, 33, FALSE)>>]>>

SelectionSourceFiles ==
    {[tsSourceMaps |-> SelectionTsMaps(b1, b2, b3),
      htmlSourceMaps |-> IF template = "html" THEN <<SelectionMarkupMap("html")>> ELSE <<>>,
      pugSourceMaps |-> IF template = "pug" THEN <<SelectionMarkupMap("pug")>> ELSE <<>>,
      cssSourceMaps |-> SelectionCssMaps(css[1], css[2])] :
        b1 \in BOOLEAN, b2 \in BOOLEAN, b3 \in BOOLEAN, template \in {"html", "pug"},
        css \in {<<"css", TRUE>>, <<"stylus", TRUE>>, <<"css", FALSE>>}}

\* the positions of a query: offsets of the script, the template and the styles
SelectionPositions ==
    UNION {[1..n -> {0, 2, 10, 13, 20, 30}] : n \in 1..MaxPositions}

InitSelection ==
    /\ Constructed(1)
    /\ noUnused = FALSE
    /\ remap = NoRemap
    /\ CrossConstructed /\ sugar = NoSugar
    /\ dtsMode = FALSE
    /\ \E uri \in {"a.vue", "b.vue"}, positions \in SelectionPositions,
          sourceFile \in SelectionSourceFiles :
          selection = [NoSelection EXCEPT !.uri = uri, !.positions = positions,
                                          !.sourceFile = sourceFile]

\* the function register returns, called with (document, positions); sourceFiles
\* holds one source file, under the uri "a.vue"; result is <<>> for undefined and
\* <<array>> for an array returned
SelectionRanges ==
    /\ ~selection.applied
    /\ selection' =
          [selection EXCEPT
              !.applied = TRUE,
              !.result = IF selection.uri # "a.vue" THEN <<>>
                         ELSE <<SelectionResult(selection.sourceFile, selection.positions)>>]
    /\ UNCHANGED <<sourceVars, nCalls, noUnused, dtsMode, nCostly, completion, engineVars, remap, crossVars, sugar, memoVars>>

NextSelection == SelectionRanges

SpecSelection == InitSelection /\ [][NextSelection]_vars

\* ----------------------------------------------------------------- claims
ScriptFamily == Range(InitScriptTs)
TemplateFamily == Range(InitTemplateTs)

\* slot r is taken by a new call in this step
Starts(r) == runs[r].pc # "poll" /\ runs'[r].pc = "poll"

\* the call in slot r executes a producer in this step
Executes(r) == runs[r].pc = "poll" /\ Len(runs'[r].executed) = Len(runs[r].executed) + 1

\* the call in slot r delivers a batch in this step
Delivers(r) == runs[r].pc = "poll" /\ runs'[r].nBatches = runs[r].nBatches + 1

\* the awaited poll of the call in slot r resolves in this step
Resolves(r) == runs[r].pc = "poll" /\ runs'[r].polls = runs[r].polls + 1

HasTriple(batch, d) == \E i \in 1..Len(batch) : SameTriple(batch[i], d)

\* the polls of a run counted against the producers it executed
C1_PolledBeforeEach ==
    \A r \in RunIds :
        /\ runs[r].polls = Len(runs[r].executed) + (IF runs[r].polledTrue THEN 1 ELSE 0)
        /\ runs[r].polledTrue => runs[r].pc = "cancelled"

C1_CancelStep ==
    \A r \in RunIds :
        /\ Executes(r) \/ Delivers(r) => Resolves(r) /\ ~runs'[r].polledTrue
        /\ runs'[r].polledTrue /\ ~Starts(r) =>
              /\ runs'[r].executed = runs[r].executed
              /\ runs'[r].nBatches = runs[r].nBatches
              /\ runs'[r].batch = runs[r].batch
              /\ (Resolves(r) => recs' = recs)

\* C1: every execution of a producer follows a poll of its own that resolved
\* false, and a poll that resolves true ends the run at once: in that step and
\* ever after the run executes no producer, stores nothing and delivers no batch.
C1_CancelStopsRun == []C1_PolledBeforeEach /\ [][C1_CancelStep]_vars

\* the call in A was cancelled at its fifth poll while the call in B, made
\* during it, went on
C1_Witness ==
    /\ runs["A"].pc = "cancelled"
    /\ runs["A"].polledTrue
    /\ Len(runs["A"].executed) = 4
    /\ runs["A"].polls = 5
    /\ runs["B"].pc = "poll"
    /\ Len(runs["B"].executed) > Len(runs["A"].executed)

\* what diag[0].value of producer p yields in this state: computed from what
\* its computeds hold, and from what they yield now where they hold nothing
ValueNow(p) ==
    ValueFrom(p, descriptor, noUnused, templateScriptData.setupReturns,
              ErrorsValue(memo, p, descriptor, noUnused, project))

\* the batches of a run counted against the producers it executed
C2_CountInv ==
    \A r \in RunIds :
        /\ runs[r].nBatches = Len(runs[r].executed)
        /\ runs[r].pc = "done" => runs[r].nBatches = Len(runs[r].all)

C2_BatchStep ==
    \A r \in RunIds :
        Executes(r) \/ Delivers(r) =>
            LET p == runs[r].all[Len(runs[r].executed) + 1]
                order == runs[r].all \o runs[r].keep
            IN  /\ Executes(r) /\ Delivers(r)
                /\ runs'[r].executed = Append(runs[r].executed, p)
                /\ recs'[p].result = ValueNow(p)
                /\ \A q \in Producers \ {p} : recs'[q] = recs[q]
                /\ runs'[r].batch =
                      withDiagnostics(Flat([i \in 1..Len(order) |-> recs'[order[i]].result]))

\* C2: a batch is delivered exactly once after each executed producer, a run that
\* is not cancelled delivers as many batches as its run list holds producers, and
\* each batch is the deduplicated concatenation, over the run list followed by
\* the held list, of the stored results: the fresh result for the producer just
\* executed, the untouched stored result for every other producer.
C2_BatchPerProducer == []C2_CountInv /\ [][C2_BatchStep]_vars

C2_Witness ==
    /\ runs["A"].pc = "done"
    /\ ~runs["A"].withSideEffect
    /\ runs["A"].nBatches = 7
    /\ \E q \in Range(runs["A"].keep) : recs[q].result # <<>>
    /\ \E q \in Range(runs["A"].all) : recs[q].result # <<>>

\* the producers executed are the first of the run list, in its order
C3_PrefixInv ==
    \A r \in RunIds :
        /\ Len(runs[r].executed) <= Len(runs[r].all)
        /\ runs[r].executed = SubSeq(runs[r].all, 1, Len(runs[r].executed))

C3_StartStep ==
    \A r \in RunIds :
        Starts(r) /\ (lastUpdateChanged.script \/ lastUpdateChanged.scriptSetup
                        \/ lastUpdateChanged.template) =>
            LET first == IF lastUpdateChanged.script \/ lastUpdateChanged.scriptSetup
                         THEN scriptTs' ELSE templateTs'
                other == IF lastUpdateChanged.script \/ lastUpdateChanged.scriptSetup
                         THEN templateTs' ELSE scriptTs'
            IN  runs'[r].all =
                    <<"style", "template", "scriptExist">> \o first
                    \o (IF runs'[r].withSideEffect THEN other ELSE <<>>)

\* C3: a run whose latest update changed a section executes the always-run group
\* first, then the family of the changed section (the script family when a script
\* section changed, else the template-script family), then, when withSideEffect
\* is true, the other family; the producers execute in the order of the run list.
C3_ExecutionOrder == []C3_PrefixInv /\ [][C3_StartStep]_vars

C3_Witness ==
    /\ runs["A"].pc = "done"
    /\ runs["A"].withSideEffect
    /\ lastUpdateChanged = [template |-> TRUE, script |-> FALSE, scriptSetup |-> FALSE]
    /\ runs["A"].executed[4] \in TemplateFamily
    /\ runs["A"].executed[7] \in ScriptFamily

\* C4 as stated: when withSideEffect is false every held producer is computed
\* during the run.
C4_HeldComputed ==
    \A r \in RunIds :
        runs[r].pc = "done" /\ ~runs[r].withSideEffect =>
            Range(runs[r].keep) \subseteq Range(runs[r].executed)

\* the held list and the run list part the producers; no held producer is executed
C4_HeldInv ==
    \A r \in RunIds :
        runs[r].pc # "idle" =>
            /\ Range(runs[r].all) \cap Range(runs[r].keep) = {}
            /\ Range(runs[r].all) \cup Range(runs[r].keep) = Producers
            /\ runs[r].withSideEffect <=> runs[r].keep = <<>>
            /\ Range(runs[r].executed) \cap Range(runs[r].keep) = {}
            /\ runs[r].nBatches = Len(runs[r].executed)

C4_HeldStep ==
    \A r \in RunIds :
        Delivers(r) =>
            \A q \in Range(runs[r].keep) :
                /\ recs'[q] = recs[q]
                /\ \A i \in 1..Len(recs[q].result) : HasTriple(runs'[r].batch, recs[q].result[i])

\* C4 amended: when withSideEffect is false the producers of the non-triggering
\* family are held: a held producer is not executed during the run and causes no
\* batch of its own, its record is left as its previous execution stored it, and
\* that stored result is merged into every batch the run delivers.
C4_HeldKeepStored == []C4_HeldInv /\ [][C4_HeldStep]_vars

C4_Witness ==
    /\ runs["A"].pc = "done"
    /\ ~runs["A"].withSideEffect
    /\ runs["A"].keep # <<>>
    /\ \E q \in Range(runs["A"].keep) :
          /\ recs[q].result # <<>>
          /\ HasTriple(runs["A"].batch, recs[q].result[1])

\* the step that starts a run leaves both families sorted by stored cost
C5_SortStep ==
    \A r \in RunIds :
        Starts(r) =>
            /\ Range(scriptTs') = ScriptFamily /\ Len(scriptTs') = 4
            /\ Range(templateTs') = TemplateFamily /\ Len(templateTs') = 3
            /\ \A i, j \in 1..4 : i < j => recs[scriptTs'[i]].cost <= recs[scriptTs'[j]].cost
            /\ \A i, j \in 1..3 : i < j => recs[templateTs'[i]].cost <= recs[templateTs'[j]].cost
            /\ \A i, j \in 1..Len(runs'[r].all) :
                  /\ i < j
                  /\ \/ {runs'[r].all[i], runs'[r].all[j]} \subseteq ScriptFamily
                     \/ {runs'[r].all[i], runs'[r].all[j]} \subseteq TemplateFamily
                  => recs[runs'[r].all[i]].cost <= recs[runs'[r].all[j]].cost

\* C5: at the start of every run each family array is a permutation of its
\* family sorted by non-decreasing stored cost, and within a family the run list
\* places a producer with a smaller stored cost before one with a larger.
C5_SortedByCost == [][C5_SortStep]_vars

C5_Witness ==
    /\ runs["A"].pc = "poll"
    /\ scriptTs = <<"S2", "S3", "S4", "S1">>
    /\ recs["S1"].cost > 0
    /\ Len(runs["A"].executed) = 4
    /\ runs["A"].executed[4] = "S2"

\* C6: no batch delivered to the response callback holds two diagnostics with
\* the same range, message and severity.
C6_NoDuplicateTriple ==
    \A r \in RunIds :
        \A i, j \in 1..Len(runs[r].batch) :
            i # j => ~SameTriple(runs[r].batch[i], runs[r].batch[j])

C6_Witness ==
    /\ runs["A"].pc = "done"
    /\ recs["S1"].result # <<>>
    /\ recs["S4"].result # <<>>
    /\ \E i \in 1..Len(recs["S1"].result) : SameTriple(recs["S1"].result[i], recs["S4"].result[1])
    /\ Cardinality({i \in 1..Len(runs["A"].batch) :
                       SameTriple(runs["A"].batch[i], recs["S4"].result[1])}) = 1

\* the semantic error of text 2's script, in source coordinates
ScriptError == Diag(41, 42, "TS2322", "Error")

OnlyScriptError == descriptor = UpdateDescriptor(EmptyDescriptor, Texts[2], 0)

\* C7 as stated: on a source whose only problems are semantic errors of the
\* script, the batch that follows the first script-family producer a run executes
\* holds the script diagnostic.
C7_FirstScriptBatch ==
    [][\A r \in RunIds :
          /\ OnlyScriptError
          /\ Executes(r)
          /\ runs[r].all[Len(runs[r].executed) + 1] \in ScriptFamily
          /\ Range(runs[r].executed) \cap ScriptFamily = {}
          => HasTriple(runs'[r].batch, ScriptError)]_vars

\* C7 amended: on such a source the batch that follows the execution of the
\* semantic script producer holds the script diagnostic; a batch that follows
\* another script-family producer, executed earlier because it was cheaper in
\* the previous run, holds what the semantic producer stored before.
C7_SemanticBatch ==
    [][\A r \in RunIds :
          /\ Executes(r)
          /\ runs[r].all[Len(runs[r].executed) + 1] # "S1"
          => recs'["S1"] = recs["S1"]]_vars
    /\ [][\A r \in RunIds :
          /\ OnlyScriptError
          /\ Executes(r)
          /\ runs[r].all[Len(runs[r].executed) + 1] = "S1"
          => HasTriple(runs'[r].batch, ScriptError)]_vars

C7_Witness ==
    /\ OnlyScriptError
    /\ runs["A"].pc = "poll"
    /\ Len(runs["A"].executed) = 7
    /\ runs["A"].executed[4] = "S2"
    /\ runs["A"].executed[7] = "S1"
    /\ HasTriple(runs["A"].batch, ScriptError)

\* segment g carries the diagnostic capability and its mapped range contains pos
CapableAt(g, pos) == g.diagnostic /\ g.mapped[1] <= pos /\ pos <= g.mapped[2]

\* pos carried over to the source by segment g
Through(g, pos) == g.source[1] + (pos - g.mapped[1])

\* the source maps of the call whose mapped document is the producer's document
MatchingMaps ==
    {remap.sourceMaps[i] : i \in {j \in 1..Len(remap.sourceMaps) :
                                     remap.sourceMaps[j].uri = remap.virtualScriptUri}}

\* C8: every diagnostic toTsSourceDiags emits is an error given to it whose range
\* start and range end are carried over by segments, with the diagnostic
\* capability, of one source map whose mapped document is the producer's document;
\* an error is absent from the output when, in every such map, no capable segment
\* contains its full range and its start or its end lies in no capable segment.
C8_RemapCapableOnly ==
    remap.applied =>
        /\ \A k \in 1..Len(remap.result) :
              \E j \in 1..Len(remap.errors) :
                 \E m \in MatchingMaps :
                    \E g, h \in Range(m.segs) :
                       /\ remap.result[k].message = remap.errors[j].message
                       /\ CapableAt(g, remap.errors[j].range[1])
                       /\ CapableAt(h, remap.errors[j].range[2])
                       /\ remap.result[k].range =
                             <<Through(g, remap.errors[j].range[1]),
                               Through(h, remap.errors[j].range[2])>>
        /\ \A j \in 1..Len(remap.errors) :
              (\A m \in MatchingMaps :
                  /\ ~\E g \in Range(m.segs) : CapableAt(g, remap.errors[j].range[1])
                                               /\ CapableAt(g, remap.errors[j].range[2])
                  /\ \/ ~\E g \in Range(m.segs) : CapableAt(g, remap.errors[j].range[1])
                     \/ ~\E h \in Range(m.segs) : CapableAt(h, remap.errors[j].range[2]))
              => ~\E k \in 1..Len(remap.result) :
                     remap.result[k].message = remap.errors[j].message

\* the first error lies in a capable segment and is emitted through it; the
\* second starts in that segment and ends in one without the capability, and is
\* dropped
C8_Witness ==
    /\ remap.applied
    /\ remap.virtualScriptUri = "script.ts"
    /\ remap.sourceMaps = <<ScriptMap(TRUE, FALSE), TemplateMap>>
    /\ remap.errors[1].range = <<1, 2>>
    /\ remap.errors[2].range = <<1, 4>>
    /\ Len(remap.result) = 1
    /\ remap.result[1].message = "TS2322"
    /\ remap.result[1].range = <<11, 12>>

\* this step is a call of update
UpdateStep == nCalls' = nCalls + 1 /\ runs' = runs

\* C9: update returns scriptUpdated exactly when the version of the generated
\* script document differs after the update, templateScriptUpdated likewise for
\* the generated template-script document, and both false when the text given
\* equals the current text.
C9_UpdateFlags ==
    [][UpdateStep =>
          /\ updateRet'.called
          /\ updateRet'.scriptUpdated <=> VersionOf(scriptGen') # VersionOf(scriptGen)
          /\ updateRet'.templateScriptUpdated <=>
                VersionOf(templateGen') # VersionOf(templateGen)
          /\ vueDoc' = vueDoc =>
                ~updateRet'.scriptUpdated /\ ~updateRet'.templateScriptUpdated]_vars

C9_Witness ==
    /\ updateRet.called
    /\ updateRet.scriptUpdated
    /\ ~updateRet.templateScriptUpdated
    /\ vueDoc = 4

\* C10: an update with the text of the update before it leaves every section
\* with the content, byte range, language and ignore flag it had.
C10_Idempotent ==
    [][UpdateStep /\ vueDoc' = vueDoc => descriptor' = descriptor]_vars

C10_Witness ==
    /\ updateRet.called
    /\ updateRet.sameText
    /\ Len(descriptor.styles) = 2
    /\ descriptor.styles[1].ignore
    /\ descriptor.customBlocks # <<>>

\* the parse of the text update was last given
LatestParse == Texts[vueDoc]

\* slot holds the fields of the parsed block b, dflt being the default language
HoldsFields(slot, b, dflt) ==
    /\ slot.content = b.content
    /\ slot.start = b.start
    /\ slot.end = b.end
    /\ slot.lang = (IF b.lang = <<>> THEN dflt ELSE b.lang[1])

\* C11: after any sequence of updates the styles array and the custom-blocks
\* array have the length of the arrays of the latest parse, and slot i holds the
\* content, range and language of the i-th parsed block.
C11_SlotsFollowParse ==
    /\ Len(descriptor.styles) = Len(LatestParse.styles)
    /\ Len(descriptor.customBlocks) = Len(LatestParse.customBlocks)
    /\ \A i \in 1..Len(descriptor.styles) :
          HoldsFields(descriptor.styles[i], LatestParse.styles[i], "css")
    /\ \A i \in 1..Len(descriptor.customBlocks) :
          HoldsFields(descriptor.customBlocks[i], LatestParse.customBlocks[i], "")

\* the text before the last update had no script, so it was text 4, of two
\* styles and a custom block; the update before that found no style slot
C11_Witness ==
    /\ vueDoc = 1
    /\ nCalls = 3
    /\ descriptor.script[1].object = 3
    /\ descriptor.styles[1].object = 2
    /\ Len(descriptor.styles) = 1
    /\ descriptor.customBlocks = <<>>

\* the optional sections of a descriptor by name
Optional(d) == [template |-> d.template, script |-> d.script, scriptSetup |-> d.scriptSetup]

\* in this step slot i of the array keeps its object / gets a new object
SameObject(old, new) == new.object = old.object
NewObject(new) == new.object = nCalls' /\ new.object > nCalls

\* C12: an update keeps the object of template, script and script-setup when the
\* section exists before and after, and the object of every style and
\* custom-block slot below both the old and the new length; an object is new
\* only where the section or the slot did not exist before.
C12_SlotIdentity ==
    [][UpdateStep =>
          /\ \A k \in {"template", "script", "scriptSetup"} :
                Optional(descriptor')[k] # <<>> =>
                   IF Optional(descriptor)[k] # <<>>
                   THEN SameObject(Optional(descriptor)[k][1], Optional(descriptor')[k][1])
                   ELSE NewObject(Optional(descriptor')[k][1])
          /\ \A i \in 1..Len(descriptor'.styles) :
                IF i <= Len(descriptor.styles)
                THEN SameObject(descriptor.styles[i], descriptor'.styles[i])
                ELSE NewObject(descriptor'.styles[i])
          /\ \A i \in 1..Len(descriptor'.customBlocks) :
                IF i <= Len(descriptor.customBlocks)
                THEN SameObject(descriptor.customBlocks[i], descriptor'.customBlocks[i])
                ELSE NewObject(descriptor'.customBlocks[i])]_vars

\* one update to text 3 from another text: the first style slot and the
\* template are the constructor's objects and hold text 3's contents
C12_Witness ==
    /\ vueDoc = 3
    /\ nCalls = 1
    /\ updateRet.called
    /\ ~updateRet.sameText
    /\ descriptor.styles[1].object = 0
    /\ descriptor.styles[1].content = "t"
    /\ descriptor.template[1].object = 0
    /\ descriptor.template[1].content = "q"

\* every section of the descriptor
Sections(d) ==
    Range(d.template) \cup Range(d.script) \cup Range(d.scriptSetup)
    \cup Range(d.styles) \cup Range(d.customBlocks)

\* C13: after an update a section has ignore = true exactly when some top-level
\* comment with the marker starts before it and no other section starts between
\* that comment and it; every other section has ignore = false.
C13_IgnoreNextSection ==
    \A sec \in Sections(descriptor) :
        sec.ignore <=>
            \E c \in LatestParse.ignoreComments :
                /\ sec.start > c
                /\ \A other \in Sections(descriptor) : other.start > c => sec.start <= other.start

\* text 5, whose script and template follow a marker, was replaced by text 2:
\* the script and the template are the constructor's objects and their flag is
\* cleared
C13_Witness ==
    /\ vueDoc = 2
    /\ nCalls = 1
    /\ descriptor.styles[1].object = 1
    /\ descriptor.script[1].object = 0
    /\ ~descriptor.script[1].ignore
    /\ ~descriptor.template[1].ignore

\* this step is a call of updateTemplateScript that changes what is stored
CrossStep == crossRet' # crossRet \/ templateScriptData' # templateScriptData

\* C14: a call of updateTemplateScript that harvests the names returns false,
\* leaves the five stored name arrays as they are and triggers no regeneration
\* when every harvested array has the members of the stored one (order and
\* duplicates ignored); else it returns true, stores the five harvested arrays
\* and triggers the regeneration.
C14_SetEqualNoOp ==
    [][CrossStep /\ crossRet'.harvested =>
          IF \A f \in NameSets : Range(Projects[project][f]) = Range(templateScriptData[f])
          THEN /\ ~crossRet'.result
               /\ ~crossRet'.regenerated
               /\ \A f \in NameSets : templateScriptData'[f] = templateScriptData[f]
          ELSE /\ crossRet'.result
               /\ crossRet'.regenerated
               /\ \A f \in NameSets : templateScriptData'[f] = Projects[project][f]]_vars

\* the names were harvested under v3, whose setup-returned names repeat a name
\* and are set-equal to those stored under v2: the call returned false
C14_Witness ==
    /\ crossRet.called
    /\ crossRet.harvested
    /\ ~crossRet.result
    /\ ~crossRet.regenerated
    /\ Projects[project].version = <<"v3">>
    /\ templateScriptData.projectVersion = <<"v3">>
    /\ templateScriptData.setupReturns = <<"msg">>

\* the diagnostics the semantic pass of the template script raises on a use
\* of a setup-returned name for which the teleport map has a primary entry
TeleportedUses ==
    IF descriptor.template = <<>> \/ descriptor.script = <<>> THEN {}
    ELSE {diag \in Range(TemplateSemanticOf(descriptor.template)) :
            /\ SpanText(diag) \in Range(templateScriptData.setupReturns)
            /\ \E i \in 1..Len(TeleportRanges(diag)) :
                   ~TeleportRanges(diag)[i].isAdditionalReference}

\* diag at the declaration of the name in the script section of the source
AtDeclaration(diag) ==
    [diag EXCEPT !.range = <<descriptor.script[1].start + 5, descriptor.script[1].start + 6>>]

\* diag at its use in the template section of the source
AtUsage(diag) ==
    [diag EXCEPT !.range = <<descriptor.template[1].start + diag.range[1],
                             descriptor.template[1].start + diag.range[2]>>]

\* the use lies in the part of the template script that maps to the template
UsageMapped(diag) ==
    diag.range[2] <= descriptor.template[1].end - descriptor.template[1].start

\* the call in slot r executes the semantic pass of the template script
ExecutesTemplateSemantic(r) ==
    /\ Executes(r)
    /\ runs[r].all[Len(runs[r].executed) + 1] = "T1"
    /\ ~ignoreTemplateCheck(descriptor)

\* C15 as stated: the batch that follows the semantic pass of the template
\* script holds a teleport-mapped diagnostic at the declaration of the name in
\* the script and does not hold it at the use in the template.
C15_DeclarationOnly ==
    [][\A r \in RunIds : ExecutesTemplateSemantic(r) =>
          \A diag \in TeleportedUses :
              /\ HasTriple(runs'[r].batch, AtDeclaration(diag))
              /\ ~HasTriple(runs'[r].batch, AtUsage(diag))]_vars

\* C15 amended: the batch holds the diagnostic at the declaration of the name
\* in the script; it holds it at the use in the template as well exactly when
\* the source map of the template script maps the use.
C15_DeclarationAdded ==
    [][\A r \in RunIds : ExecutesTemplateSemantic(r) =>
          \A diag \in TeleportedUses :
              /\ HasTriple(runs'[r].batch, AtDeclaration(diag))
              /\ HasTriple(runs'[r].batch, AtUsage(diag)) <=> UsageMapped(diag)]_vars

\* the unused-name diagnostic raised behind the lowered markup is delivered at
\* the declaration alone
C15_Witness ==
    /\ vueDoc = 6
    /\ "T1" \in Range(runs["A"].executed)
    /\ TeleportedUses # {}
    /\ HasTriple(runs["A"].batch, Diag(45, 46, "TS6133", "Error"))
    /\ ~HasTriple(runs["A"].batch, Diag(22, 23, "TS6133", "Error"))

\* the result stored for the template producer reports a failure of the compiler
CompileFailureStored ==
    \E i \in 1..Len(recs["template"].result) :
        recs["template"].result[i].message = "compile failed"

\* C16 as stated: a producer whose computation fails stores the empty result
\* and the run goes on; after a poll that resolved false the producer is
\* executed and a batch is delivered, and no call is ever rejected.
C16_FailureDegrades ==
    /\ [](\A r \in RunIds : runs[r].pc # "rejected")
    /\ [](~CompileFailureStored)
    /\ [][\A r \in RunIds : Resolves(r) /\ ~runs'[r].polledTrue =>
             Executes(r) /\ Delivers(r)]_vars

\* the section or the generated document producer p reads is absent
Absent(p) ==
    CASE p = "style" -> descriptor.styles = <<>>
      [] p = "template" -> descriptor.template = <<>>
      [] p = "scriptExist" -> ScriptDocument(descriptor) = <<>>
      [] p \in {"T1", "T2", "T3"} -> TemplateDocument(descriptor) = <<>>
      [] p \in {"S1", "S2", "S3"} -> ScriptDocument(descriptor) = <<>>
      [] p = "S4" -> ~noUnused \/ SuggestionDocument(descriptor) = <<>>

\* C17: a producer executed while the section or the generated document it
\* reads is absent stores the empty list, and the run goes on as with any other
\* producer: the batch of the step is delivered and holds what the other
\* producers stored.
C17_AbsentYieldsEmpty ==
    [][\A r \in RunIds : Executes(r) =>
          /\ Absent(runs[r].all[Len(runs[r].executed) + 1]) =>
                 recs'[runs[r].all[Len(runs[r].executed) + 1]].result = <<>>
          /\ Delivers(r)
          /\ runs'[r].pc \in {"poll", "done"}
          /\ runs'[r].batch = Batch(runs[r].all, runs[r].keep, recs')]_vars

\* the run on the source that holds a style alone has executed every producer
\* and delivered the diagnostic of the style
C17_Witness ==
    /\ vueDoc = 7
    /\ runs["A"].pc = "done"
    /\ Len(runs["A"].executed) = Cardinality(Producers)
    /\ \A p \in Producers \ {"style"} : recs[p].result = <<>>
    /\ runs["A"].batch = <<Diag(71, 72, "css", "Warning")>>

\* the name declared by the label of the text the command was first executed
\* on is used as sym in the script-setup block
Uses(sym) ==
    /\ SugarParse(sugar.original).scriptSetup # <<>>
    /\ LET loc == [start |-> SugarParse(sugar.original).scriptSetup[1].start,
                   end |-> SugarParse(sugar.original).scriptSetup[1].end]
           labels == Labels(SubSeq(sugar.original, loc.start, loc.end - 1))
       IN  /\ labels # <<>>
           /\ \E r \in Range(UsesOf(sugar.original, loc,
                                    [start |-> loc.start + labels[1].vars[1].start,
                                     end |-> loc.start + labels[1].vars[1].end])) :
                 sugar.original[r.start] = sym

\* SWITCH_REF_SUGAR was executed twice and no other command, each time on the
\* text the client held once it had applied every request sent before
ToggledTwice ==
    /\ sugar.toggles = 2
    /\ sugar.converts = 0
    /\ sugar.pending = <<>>
    /\ sugar.text = SwitchedText(SwitchedText(sugar.original, sugar.mapped), sugar.mapped)

\* C18 as stated: on a text that declares ref: x = e and uses the name as x
\* and as $x, the text after two executions of SWITCH_REF_SUGAR is the text
\* before the first.
C18_RoundTrip ==
    ToggledTwice /\ Uses("x") /\ Uses("$x") => sugar.text = sugar.original

\* every call that has not returned is suspended at a poll: in no state is a
\* producer part-way through its execution
C19_SuspendedAtPoll ==
    \A r \in RunIds : runs[r].pc \in {"idle", "poll", "cancelled", "done"}

\* a step executes one producer of one call from the state the step starts in,
\* and whatever else changes the stored results is an execution too
C19_OneProducerStep ==
    /\ \A r1, r2 \in RunIds : Executes(r1) /\ Executes(r2) => r1 = r2
    /\ recs' # recs => \E r \in RunIds : Executes(r)
    /\ \A r \in RunIds : Executes(r) =>
          /\ recs'[runs[r].all[Len(runs[r].executed) + 1]].result =
                ValueNow(runs[r].all[Len(runs[r].executed) + 1])
          /\ \A q \in Producers \ {runs[r].all[Len(runs[r].executed) + 1]} :
                recs'[q] = recs[q]
          /\ Delivers(r)
          /\ descriptor' = descriptor
          /\ \A r2 \in RunIds \ {r} : runs'[r2] = runs[r2]
    /\ \A r \in RunIds : runs'[r] # runs[r] /\ runs[r].pc \notin {"idle", "done", "cancelled"}
          => Resolves(r)

\* C19: producers never execute in parallel. Over calls of getDiagnostics that
\* overlap, a step executes at most one producer, from the poll that resolved to
\* the delivery of its batch with nothing in between, and a call in progress is
\* touched by nothing but the resolution of its own poll: update and the other
\* call act only while it is suspended there.
C19_NoParallelExecution == []C19_SuspendedAtPoll /\ [][C19_OneProducerStep]_vars

\* the call in A has executed two producers and is suspended at its third poll;
\* meanwhile update has replaced the text and the call in B has executed one
C19_Witness ==
    /\ runs["A"].pc = "poll"
    /\ Len(runs["A"].executed) = 2
    /\ runs["B"].pc = "poll"
    /\ Len(runs["B"].executed) = 1
    /\ vueDoc = 2
    /\ nCalls = 3

\* C20: when no capable segment of a matching map contains the full range of
\* an error, toTsSourceDiags emits, for every matching map in which a capable
\* segment g contains the start and a capable segment h contains the end, the
\* error with the start carried over by g and the end carried over by h,
\* whatever their order: the end of an emitted range may precede its start.
C20_StitchUnguarded ==
    remap.applied =>
        \A j \in 1..Len(remap.errors) :
            (~\E m \in MatchingMaps : \E g \in Range(m.segs) :
                   CapableAt(g, remap.errors[j].range[1])
                   /\ CapableAt(g, remap.errors[j].range[2]))
            => \A m \in MatchingMaps : \A g, h \in Range(m.segs) :
                   CapableAt(g, remap.errors[j].range[1])
                   /\ CapableAt(h, remap.errors[j].range[2])
                   => \E k \in 1..Len(remap.result) :
                         /\ remap.result[k].message = remap.errors[j].message
                         /\ remap.result[k].range =
                               <<Through(g, remap.errors[j].range[1]),
                                 Through(h, remap.errors[j].range[2])>>

\* the error at 1..4 of the generated script, whose start and end lie in two
\* segments mapped in the opposite order, is emitted at 11..5
C20_Witness ==
    /\ remap.applied
    /\ remap.virtualScriptUri = "script.ts"
    /\ remap.sourceMaps = <<ScriptMap(TRUE, TRUE), TemplateMap>>
    /\ \A j \in 1..Len(remap.errors) : remap.errors[j].range[1] <= remap.errors[j].range[2]
    /\ \E k \in 1..Len(remap.result) :
          /\ remap.result[k].message = "TS6133"
          /\ remap.result[k].range = <<11, 5>>
          /\ remap.result[k].range[2] < remap.result[k].range[1]

\* the producer the call in slot r is about to execute
NextProducer(r) == runs[r].all[Len(runs[r].executed) + 1]

\* C21: the record of a producer changes only in a step that executes that
\* producer, and then to the result and the one wall-time of that execution;
\* the record of a producer that is held, or that the run does not reach
\* because it is cancelled, stays as its last execution left it.
C21_RecordOnlyOnExecution ==
    [][/\ \A p \in Producers :
              recs'[p] # recs[p] => \E r \in RunIds : Executes(r) /\ NextProducer(r) = p
       /\ \A r \in RunIds : Executes(r) =>
              recs'[NextProducer(r)] =
                 [result |-> ValueNow(NextProducer(r)),
                  cost |-> measured'[NextProducer(r)]]
       /\ \A r \in RunIds : Resolves(r) /\ runs'[r].polledTrue => recs' = recs]_vars

\* a run without side effects has ended: the semantic script producer was held
\* and keeps the cost and the diagnostics of its execution in the run before
C21_Witness ==
    /\ runs["A"].pc = "done"
    /\ "S1" \in Range(runs["A"].keep)
    /\ recs["S1"].cost = 1
    /\ Len(recs["S1"].result) = 2
    /\ nCalls = 3

\* diag lies in the script section of the source
InScript(diag) ==
    /\ descriptor.script # <<>>
    /\ descriptor.script[1].start <= diag.range[1]
    /\ diag.range[2] <= descriptor.script[1].end

\* C22: every diagnostic a template-script producer places in the script
\* section is an error of the template script whose span text is a
\* setup-returned name, placed at the definition that the engine finds in the
\* generated script from a teleport entry that is not an additional reference;
\* nothing is placed at what is found from an additional reference or in
\* another document.
C22_PrimaryEntriesOnly ==
    [][\A r \in RunIds : Executes(r) /\ NextProducer(r) \in TemplateFamily =>
          \A i \in 1..Len(recs'[NextProducer(r)].result) :
              LET diag == recs'[NextProducer(r)].result[i] IN
              InScript(diag) =>
                  \E e \in TeleportedUses :
                      \E j \in 1..Len(TeleportRanges(e)) :
                          \E k \in 1..Len(FindDefinition(TeleportRanges(e)[j].start)) :
                              LET def == FindDefinition(TeleportRanges(e)[j].start)[k] IN
                              /\ ~TeleportRanges(e)[j].isAdditionalReference
                              /\ def.targetUri = "script.ts"
                              /\ diag.message = e.message
                              /\ diag.range =
                                    <<descriptor.script[1].start + def.targetSelectionRange[1],
                                      descriptor.script[1].start + def.targetSelectionRange[2]>>]_vars

\* of the two teleport entries and the three definitions of the name, the
\* semantic pass of the template script has stored the diagnostic once, at the
\* declaration in the generated script
C22_Witness ==
    /\ vueDoc = 6
    /\ "msg" \in Range(templateScriptData.setupReturns)
    /\ recs["T1"].result = <<Diag(45, 46, "TS6133", "Error")>>

\* the run list of slot r after this step has the template-script family
\* directly behind the always-run group
TemplateFamilyFirst(r) ==
    Len(runs'[r].all) > 3 /\ runs'[r].all[4] \in TemplateFamily

\* C23: a run that starts after an update that changed the content of a script
\* section and of the template executes the script family directly behind the
\* always-run group and the template-script family behind it (or holds it);
\* the template-script family comes first exactly when the template changed
\* and neither script section did.
C23_ScriptBeforeTemplate ==
    [][\A r \in RunIds : Starts(r) =>
          /\ (lastUpdateChanged.script \/ lastUpdateChanged.scriptSetup)
             /\ lastUpdateChanged.template =>
                 /\ Len(runs'[r].all) >= 7
                 /\ SubSeq(runs'[r].all, 4, 7) = scriptTs'
                 /\ IF runs'[r].withSideEffect
                    THEN /\ Len(runs'[r].all) = 10
                         /\ SubSeq(runs'[r].all, 8, 10) = templateTs'
                         /\ runs'[r].keep = <<>>
                    ELSE Len(runs'[r].all) = 7 /\ runs'[r].keep = templateTs'
          /\ TemplateFamilyFirst(r) <=>
                 /\ lastUpdateChanged.template
                 /\ ~lastUpdateChanged.script
                 /\ ~lastUpdateChanged.scriptSetup]_vars

\* the update from text 2 to text 3 changed the script and the template; the
\* run after it has executed the script family and then the template-script
\* family
C23_Witness ==
    /\ vueDoc = 3
    /\ lastUpdateChanged.script
    /\ lastUpdateChanged.template
    /\ runs["A"].pc = "done"
    /\ Len(runs["A"].executed) = 10
    /\ \A i \in 4..7 : runs["A"].executed[i] \in ScriptFamily
    /\ \A i \in 8..10 : runs["A"].executed[i] \in TemplateFamily

\* C24: after every update each of the three flags tells whether the content
\* of its section after the update differs from its content before it, a
\* section that appears or disappears counting as changed and one that only
\* moved or changed its language not; an update with the text of the update
\* before it leaves the three flags false.
C24_FlagsOfLastUpdate ==
    [][UpdateStep =>
          /\ lastUpdateChanged'.template <=>
                ContentOf(descriptor'.template) # ContentOf(descriptor.template)
          /\ lastUpdateChanged'.script <=>
                ContentOf(descriptor'.script) # ContentOf(descriptor.script)
          /\ lastUpdateChanged'.scriptSetup <=>
                ContentOf(descriptor'.scriptSetup) # ContentOf(descriptor.scriptSetup)
          /\ vueDoc' = vueDoc =>
                lastUpdateChanged' = [template |-> FALSE, script |-> FALSE,
                                      scriptSetup |-> FALSE]]_vars

\* the first update brought the script-setup section in, the second gave the
\* same text again: the flags are false
C24_Witness ==
    /\ nCalls = 2
    /\ vueDoc = 4
    /\ updateRet.sameText
    /\ descriptor.scriptSetup # <<>>
    /\ descriptor.scriptSetup[1].object = 1
    /\ lastUpdateChanged = [template |-> FALSE, script |-> FALSE, scriptSetup |-> FALSE]

\* no flag of the latest update is set
NothingChanged ==
    ~lastUpdateChanged.template /\ ~lastUpdateChanged.script /\ ~lastUpdateChanged.scriptSetup

\* run r was started with withSideEffect false after an update that changed
\* nothing: its list holds the always-run producers alone
Quiet(r) == runs[r].pc # "idle" /\ ~runs[r].withSideEffect /\ runs[r].all = nonTs

\* C25: a run started with withSideEffect false when the latest update changed
\* no section content executes the three always-run producers only: both
\* families are held in their sorted order, the run that is not cancelled
\* delivers exactly three batches, and no step of such a run, however many of
\* them follow one another, recomputes a script or template-script producer.
C25_QuietRun ==
    /\ [](\A r \in RunIds : Quiet(r) =>
            /\ Range(runs[r].executed) \subseteq Range(nonTs)
            /\ runs[r].nBatches <= 3
            /\ runs[r].pc = "done" => runs[r].nBatches = 3 /\ runs[r].executed = nonTs)
    /\ [][\A r \in RunIds :
            /\ Starts(r) /\ NothingChanged /\ ~runs'[r].withSideEffect =>
                  /\ runs'[r].all = nonTs
                  /\ runs'[r].keep = scriptTs' \o templateTs'
            /\ Quiet(r) /\ runs'[r] # runs[r] /\ ~Starts(r) =>
                  \A p \in ScriptFamily \cup TemplateFamily :
                      recs'[p] = recs[p] /\ measured'[p] = measured[p]]_vars

\* a full run computed the script error, an update gave the same text again and
\* a run without side effects finished: three batches, the held result in them
C25_Witness ==
    /\ nCalls = 3
    /\ NothingChanged
    /\ Quiet("A")
    /\ runs["A"].pc = "done"
    /\ runs["A"].nBatches = 3
    /\ Len(runs["A"].keep) = 7
    /\ recs["S1"].result # <<>>
    /\ \A i \in 1..Len(recs["S1"].result) : HasTriple(runs["A"].batch, recs["S1"].result[i])

\* C26: after every call of updateTemplateScript the stored token is the
\* host's token, whatever the call returned; a call made while the stored token
\* is the host's returns false without a completion query and leaves the
\* cross-reference data as it is, also when the token was stored by a call
\* that returned false because the name sets were equal.
C26_TokenStoredFirst ==
    [][CrossStep =>
          /\ templateScriptData'.projectVersion = Projects[project].version
          /\ templateScriptData.projectVersion = Projects[project].version =>
                /\ ~crossRet'.harvested
                /\ ~crossRet'.result
                /\ ~crossRet'.regenerated
                /\ templateScriptData' = templateScriptData]_vars

\* the token v3 was stored by a call that found the name sets of v2 again and
\* returned false (the names stored are those of v2); the call after it made
\* no query
C26_Witness ==
    /\ project = 4
    /\ templateScriptData.projectVersion = <<"v3">>
    /\ templateScriptData.setupReturns = <<"msg">>
    /\ crossRet.called
    /\ ~crossRet.harvested
    /\ ~crossRet.result

\* diagnostic diag lies in section sec of the source
InSection(diag, sec) == sec.start <= diag.range[1] /\ diag.range[2] <= sec.end

\* C27 as stated: with the template ignored, template validation and the three
\* template-script producers yield the empty list; with the script or the
\* script-setup section ignored, the four script producers and the
\* missing-script validation yield the empty list; style validation skips
\* exactly the styles that are ignored: it yields nothing for a style that is
\* ignored and the diagnostics of every style that is not.
C27_SkipsExactlyIgnored ==
    [][\A r \in RunIds : Executes(r) =>
          LET p == NextProducer(r)
              d == descriptor
          IN  /\ d.template # <<>> /\ d.template[1].ignore
                    /\ p \in {"template"} \cup TemplateFamily => recs'[p].result = <<>>
              /\ (\E sec \in {d.script, d.scriptSetup} : sec # <<>> /\ sec[1].ignore)
                    /\ p \in {"scriptExist"} \cup ScriptFamily => recs'[p].result = <<>>
              /\ p = "style" =>
                    \A i \in 1..Len(d.styles) :
                        (\E k \in 1..Len(recs'[p].result) :
                              InSection(recs'[p].result[k], d.styles[i]))
                        <=> /\ ~d.styles[i].ignore
                            /\ StyleOf(d.styles[i]) # <<>>]_vars

\* C27, amended: what a producer yields while a section is ignored: with the
\* template ignored, template validation and the three template-script
\* producers (the relocated diagnostics with them) yield the empty list; with
\* the script or the script-setup section ignored, the four script producers
\* and the missing-script validation yield the empty list; style validation
\* yields nothing for a style that is ignored nor for a style in a language
\* without a css language service, and the diagnostics of every other style.
C27_IgnoreSuppresses ==
    [][\A r \in RunIds : Executes(r) =>
          LET p == NextProducer(r)
              d == descriptor
          IN  /\ d.template # <<>> /\ d.template[1].ignore
                    /\ p \in {"template"} \cup TemplateFamily => recs'[p].result = <<>>
              /\ (\E sec \in {d.script, d.scriptSetup} : sec # <<>> /\ sec[1].ignore)
                    /\ p \in {"scriptExist"} \cup ScriptFamily => recs'[p].result = <<>>
              /\ p = "style" =>
                    \A i \in 1..Len(d.styles) :
                        (\E k \in 1..Len(recs'[p].result) :
                              InSection(recs'[p].result[k], d.styles[i]))
                        <=> /\ ~d.styles[i].ignore
                            /\ getCssLanguageService(d.styles[i].lang)
                            /\ StyleOf(d.styles[i]) # <<>>]_vars

\* a finished run on text 11: the script producers and the second style are
\* silent, the template's and the first style's diagnostics are there
C27_Witness ==
    /\ vueDoc = 11
    /\ "msg" \in Range(templateScriptData.setupReturns)
    /\ runs["A"].pc = "done"
    /\ Len(runs["A"].executed) = 10
    /\ \A p \in {"scriptExist"} \cup ScriptFamily : recs[p].result = <<>>
    /\ Len(recs["T1"].result) = 2
    /\ recs["template"].result # <<>>
    /\ recs["style"].result = <<Diag(71, 72, "css", "Warning")>>

\* C28: the producers a run executes and their order are those of the list
\* built when it started: no step taken while the run waits at a poll (an
\* update, the start of another run that sorts the families again, a step of
\* another run) changes its lists; each of its own steps executes the next
\* producer of that list and delivers one batch, so that the run ends having
\* executed the whole list with one batch for each producer, unless a poll
\* resolves true, the only way the run ends earlier.
C28_ListFixedAtStart ==
    [][\A r \in RunIds : runs[r].pc = "poll" =>
          /\ runs'[r].all = runs[r].all
          /\ runs'[r].keep = runs[r].keep
          /\ Len(runs'[r].executed) <= Len(runs[r].all)
          /\ runs'[r].executed = SubSeq(runs[r].all, 1, Len(runs'[r].executed))
          /\ runs'[r].nBatches = Len(runs'[r].executed)
          /\ runs'[r].pc = "done" => runs'[r].executed = runs[r].all
          /\ runs'[r].pc = "cancelled" <=> Resolves(r) /\ runs'[r].polledTrue
          /\ Resolves(r) /\ ~runs'[r].polledTrue => Executes(r) /\ Delivers(r)]_vars

\* run A measured a cost, run B started at one of A's polls and sorted the
\* script family into another order, the source was updated, and A finished its
\* own list
C28_Witness ==
    /\ nCalls = 3
    /\ vueDoc = 2
    /\ runs["B"].pc # "idle"
    /\ runs["A"].pc = "done"
    /\ Len(runs["A"].all) = 10
    /\ runs["A"].executed = runs["A"].all
    /\ runs["A"].nBatches = 10
    /\ SubSeq(runs["A"].all, 4, 7) = InitScriptTs
    /\ scriptTs # InitScriptTs

\* the errors of producer p are held and this step invalidates them
Invalidated(p) == memo[p] # <<>> /\ memo'[p] = <<>>

\* C29: the start of a run under another project-version token invalidates the
\* held errors of the semantic producers (script semantic, unused-only,
\* template-script semantic) and of no other producer; a syntactic or
\* suggestion producer whose errors are held is executed without asking the
\* engine: its result is computed from the held errors, so that while the
\* source is not updated (document, source maps and ignore flag are those of
\* its execution before) it stores the result it stored before, also under a
\* project for which the engine would answer otherwise; a semantic producer
\* whose errors are not held stores what the engine answers now.
C29_OnlySemanticWatches ==
    [][\A r \in RunIds :
          /\ Starts(r) =>
                \A p \in TsProducers :
                    Invalidated(p) <=> /\ memo[p] # <<>>
                                       /\ p \in {"S1", "S4", "T1"}
                                       /\ Projects[project].version # tsProjectVersion
          /\ Executes(r) /\ NextProducer(r) \in {"S2", "S3", "T2", "T3"}
                /\ memo[NextProducer(r)] # <<>> =>
                LET p == NextProducer(r)
                IN  /\ memo'[p][1] = memo[p][1]
                    /\ recs'[p].result =
                          ValueFrom(p, descriptor, noUnused, templateScriptData.setupReturns,
                                    memo[p][1])
                    /\ ~updateRet.called => recs'[p].result = recs[p].result
          /\ Executes(r) /\ NextProducer(r) \in {"S1", "S4", "T1"}
                /\ memo[NextProducer(r)] = <<>> =>
                recs'[NextProducer(r)].result =
                    ValueFrom(NextProducer(r), descriptor, noUnused,
                              templateScriptData.setupReturns,
                              Errors(NextProducer(r), descriptor, noUnused, project))]_vars

\* after a run under the first project the project changed to the state of
\* token v6 and a second run finished, with no update: the semantic producer
\* reports what the engine says now, the suggestion producer what it held
C29_Witness ==
    /\ ~updateRet.called
    /\ nCalls = 2
    /\ project = 7
    /\ tsProjectVersion = <<"v6">>
    /\ runs["A"].pc = "done"
    /\ \E i \in 1..Len(recs["S1"].result) : recs["S1"].result[i].message = "TS2305"
    /\ memo["S3"] # <<>>
    /\ Errors("S3", descriptor, noUnused, project) # memo["S3"][1]
    /\ \A i \in 1..Len(recs["S3"].result) : recs["S3"].result[i].message # "TS80002"

\* the offset of the html generated from pug maps back to the pug text
PugMaps(x) == \E i \in 1..Len(PugSegs) : PugSegs[i].mapped[1] <= x /\ x <= PugSegs[i].mapped[2]

\* the pug offset of an html offset that maps back
PugOf(x) ==
    LET i == CHOOSE i \in 1..Len(PugSegs) :
                /\ PugSegs[i].mapped[1] <= x /\ x <= PugSegs[i].mapped[2]
                /\ \A k \in 1..(i - 1) : ~(PugSegs[k].mapped[1] <= x /\ x <= PugSegs[k].mapped[2])
    IN  PugSegs[i].source[1] + (x - PugSegs[i].mapped[1])

\* one segment holds both ends of the range
PugMapsWhole(range) ==
    \E i \in 1..Len(PugSegs) :
        PugSegs[i].mapped[1] <= range[1] /\ range[2] <= PugSegs[i].mapped[2]

\* C30: executed on a pug template that is parsed and not ignored, template
\* validation stores exactly one diagnostic for each compiler error, in their
\* order: when one segment holds the error's range, at that range mapped back,
\* with the message as it is; else, when start and end map back apart, from
\* the mapped start to the mapped end less the blanks that end the text between
\* them, with the message as it is; else over the whole template section, the
\* message extended by the pretty-printed snippet, or by the raw snippet and the
\* serialized error when the pretty-printer throws.
C30_OneDiagnosticPerError ==
    [][\A r \in RunIds :
          Executes(r) /\ NextProducer(r) = "template"
             /\ descriptor.template # <<>> /\ descriptor.template[1].lang = "pug"
             /\ ~descriptor.template[1].ignore /\ PugAstError(descriptor.template[1]) = <<>> =>
          LET sec == descriptor.template[1]
              errors == PugCompileOf(sec)
              result == recs'["template"].result
          IN  /\ Len(result) = Len(errors)
              /\ \A i \in 1..Len(errors) : i <= Len(result) =>
                    LET e == errors[i]
                    IN  IF PugMapsWhole(e.range)
                        THEN /\ result[i].range = <<sec.start + PugOf(e.range[1]),
                                                    sec.start + PugOf(e.range[2])>>
                             /\ result[i].message = e.message
                        ELSE IF PugMaps(e.range[1]) /\ PugMaps(e.range[2])
                        THEN /\ result[i].range[1] = sec.start + PugOf(e.range[1])
                             /\ result[i].range[2] <= sec.start + PugOf(e.range[2])
                             /\ \A x \in (result[i].range[2] - sec.start)
                                         ..(PugOf(e.range[2]) - 1) : x \in PugBlanks
                             /\ result[i].range[2] - sec.start > PugOf(e.range[1]) =>
                                    (result[i].range[2] - sec.start - 1) \notin PugBlanks
                             /\ result[i].message = e.message
                        ELSE /\ result[i].range = <<sec.start, sec.end>>
                             /\ result[i].message # e.message
                             /\ result[i].message =
                                    IF PrettyThrows(e.range)
                                    THEN "vue-compile, raw html, error as json"
                                    ELSE "vue-compile, pretty html"]_vars

\* a finished run on the pug template of text 4: the four compiler errors gave
\* four diagnostics, the second trimmed by the blank, the last two over the
\* whole section
C30_Witness ==
    /\ vueDoc = 4
    /\ runs["A"].pc = "done"
    /\ recs["template"].result =
          <<Diag(11, 12, "vue-compile", "Error"),
            Diag(12, 14, "vue-compile", "Error"),
            Diag(10, 20, "vue-compile, pretty html", "Error"),
            Diag(10, 20, "vue-compile, raw html, error as json", "Error")>>


\* the indices of the call's source maps whose mapped document is the producer's
\* document and which hold a segment whose mapped range contains the full range
\* of error j
CoveringMaps(j) ==
    {i \in 1..Len(remap.sourceMaps) :
        /\ remap.sourceMaps[i].uri = remap.virtualScriptUri
        /\ \E g \in Range(remap.sourceMaps[i].segs) :
              /\ g.mapped[1] <= remap.errors[j].range[1]
              /\ remap.errors[j].range[2] <= g.mapped[2]}

\* the places of the output that hold error j
EmittedFor(j) ==
    {k \in 1..Len(remap.result) : remap.result[k].message = remap.errors[j].message}

\* C31: toSourceDiags emits each error once for each source map whose mapped
\* document is the producer's document and which holds a segment containing the
\* error's full range, whatever the segment's capability, with the range carried
\* over by that segment; an error whose full range no such map contains is
\* absent from the output, even when its start and its end are mapped apart.
C31_OncePerCoveringMap ==
    remap.applied =>
        /\ \A j \in 1..Len(remap.errors) :
              Cardinality(EmittedFor(j)) = Cardinality(CoveringMaps(j))
        /\ \A j \in 1..Len(remap.errors) :
              \A i \in CoveringMaps(j) :
                 \E k \in EmittedFor(j) :
                    \E g \in Range(remap.sourceMaps[i].segs) :
                       /\ g.mapped[1] <= remap.errors[j].range[1]
                       /\ remap.errors[j].range[2] <= g.mapped[2]
                       /\ remap.result[k].range =
                             <<Through(g, remap.errors[j].range[1]),
                               Through(g, remap.errors[j].range[2])>>
                       /\ remap.result[k].severity = remap.errors[j].severity
        /\ \A j \in 1..Len(remap.errors) :
              CoveringMaps(j) = {} => EmittedFor(j) = {}

\* the first error lies in a segment without the diagnostic capability and is
\* emitted through it; the second starts in that segment and ends in the next
\* one, both ends are mapped, and it is dropped
C31_Witness ==
    /\ remap.applied
    /\ remap.virtualScriptUri = "script.ts"
    /\ remap.sourceMaps = <<ScriptMap(FALSE, TRUE), TemplateMap>>
    /\ remap.errors[1].range = <<1, 2>>
    /\ remap.errors[2].range = <<1, 4>>
    /\ CoveringMaps(1) = {1}
    /\ CoveringMaps(2) = {}
    /\ Len(remap.result) = 1
    /\ remap.result[1].message = "TS2322"
    /\ remap.result[1].range = <<11, 12>>

\* the source ranges a selection range of the mapped document is carried to by
\* the segments of source map m that contain it
Carried(m, selectRange) ==
    {<<Through(h, selectRange[1]), Through(h, selectRange[2])>> :
        h \in {g \in Range(m.segs) : /\ g.mapped[1] <= selectRange[1]
                                     /\ selectRange[2] <= g.mapped[2]}}

\* the mapped position of the query's p-th position through segment g, when the
\* segment's source range contains it
Reaches(g, p) ==
    /\ g.source[1] <= selection.positions[p]
    /\ selection.positions[p] <= g.source[2]

MappedStart(g, p) == g.mapped[1] + (selection.positions[p] - g.source[1])

\* <<p, i, k>>: position p reaches segment k of script map i, the segment has
\* the basic capability, the engine answers and its answer maps back
ScriptHits ==
    {t \in (1..Len(selection.positions)) \X (1..Len(selection.sourceFile.tsSourceMaps))
           \X (1..2) :
        LET m == selection.sourceFile.tsSourceMaps[t[2]]
        IN  /\ t[3] <= Len(m.segs)
            /\ m.segs[t[3]].basic
            /\ Reaches(m.segs[t[3]], t[1])
            /\ getSelectionRange(m.uri, MappedStart(m.segs[t[3]], t[1])) # <<>>
            /\ Carried(m, getSelectionRange(m.uri, MappedStart(m.segs[t[3]], t[1]))[1]) # {}}

ScriptHitRanges(t) ==
    LET m == selection.sourceFile.tsSourceMaps[t[2]]
    IN  Carried(m, getSelectionRange(m.uri, MappedStart(m.segs[t[3]], t[1]))[1])

MarkupMaps == selection.sourceFile.htmlSourceMaps \o selection.sourceFile.pugSourceMaps

MarkupAnswer(m, pos) ==
    IF m.language = "html" THEN HtmlSelectionRanges(pos) ELSE PugSelectionRanges(pos)

\* <<p, i, k>>: position p reaches segment k of markup map i, whatever its
\* capability, the map's engine answers and its answer maps back
MarkupHits ==
    {t \in (1..Len(selection.positions)) \X (1..Len(MarkupMaps)) \X (1..2) :
        LET m == MarkupMaps[t[2]]
        IN  /\ t[3] <= Len(m.segs)
            /\ Reaches(m.segs[t[3]], t[1])
            /\ MarkupAnswer(m, MappedStart(m.segs[t[3]], t[1])) # <<>>
            /\ Carried(m, MarkupAnswer(m, MappedStart(m.segs[t[3]], t[1]))[1]) # {}}

MarkupHitRanges(t) ==
    LET m == MarkupMaps[t[2]]
    IN  Carried(m, MarkupAnswer(m, MappedStart(m.segs[t[3]], t[1]))[1])

\* <<p, i, k>>: position p reaches segment k of style map i, the map has an
\* engine and a stylesheet, the engine answers and its answer maps back
StyleHits ==
    {t \in (1..Len(selection.positions)) \X (1..Len(selection.sourceFile.cssSourceMaps))
           \X (1..2) :
        LET m == selection.sourceFile.cssSourceMaps[t[2]]
        IN  /\ t[3] <= Len(m.segs)
            /\ getCssLanguageService(m.languageId) /\ m.stylesheet
            /\ Reaches(m.segs[t[3]], t[1])
            /\ CssSelectionRanges(MappedStart(m.segs[t[3]], t[1])) # <<>>
            /\ Carried(m, CssSelectionRanges(MappedStart(m.segs[t[3]], t[1]))[1]) # {}}

StyleHitRanges(t) ==
    LET m == selection.sourceFile.cssSourceMaps[t[2]]
    IN  Carried(m, CssSelectionRanges(MappedStart(m.segs[t[3]], t[1]))[1])

\* C32: for a document without a source file the selection-range query returns
\* undefined; otherwise it returns an array made of three consecutive groups,
\* the style results, then the markup results, then the script results, where
\* each group holds one result for each answer of its engine that maps back to
\* the source and nothing else, and a script result comes only from a position
\* mapped through a segment with the basic capability.
C32_StyleMarkupScript ==
    selection.applied =>
        /\ selection.uri # "a.vue" => selection.result = <<>>
        /\ selection.uri = "a.vue" =>
              /\ selection.result # <<>>
              /\ \E a, b \in 0..(IF selection.result = <<>> THEN 0 ELSE Len(selection.result[1])) :
                    LET res == selection.result[1]
                    IN  /\ a <= b
                        /\ a = Cardinality(StyleHits)
                        /\ b - a = Cardinality(MarkupHits)
                        /\ Len(res) - b = Cardinality(ScriptHits)
                        /\ \A k \in 1..a : \E t \in StyleHits : res[k].range \in StyleHitRanges(t)
                        /\ \A t \in StyleHits : \E k \in 1..a : res[k].range \in StyleHitRanges(t)
                        /\ \A k \in (a + 1)..b :
                              \E t \in MarkupHits : res[k].range \in MarkupHitRanges(t)
                        /\ \A t \in MarkupHits :
                              \E k \in (a + 1)..b : res[k].range \in MarkupHitRanges(t)
                        /\ \A k \in (b + 1)..Len(res) :
                              \E t \in ScriptHits : res[k].range \in ScriptHitRanges(t)
                        /\ \A t \in ScriptHits :
                              \E k \in (b + 1)..Len(res) : res[k].range \in ScriptHitRanges(t)

\* positions in the script, the template and the first style, given in that
\* order: the style result comes first, the markup result second and the script
\* result of the template's script map last; the script position reaches one
\* segment with the basic capability, whose answer does not map back, and one
\* without it, and adds nothing
C32_Witness ==
    /\ selection.applied
    /\ selection.uri = "a.vue"
    /\ selection.positions = <<2, 10, 20>>
    /\ selection.sourceFile.tsSourceMaps = SelectionTsMaps(TRUE, FALSE, TRUE)
    /\ selection.sourceFile.htmlSourceMaps = <<SelectionMarkupMap("html")>>
    /\ selection.sourceFile.cssSourceMaps = SelectionCssMaps("css", TRUE)
    /\ selection.result = << <<[range |-> <<20, 21>>], [range |-> <<10, 14>>],
                               [range |-> <<10, 12>>]>> >>

\* a query for a document that has no source file returns undefined
C32_WitnessUnknown ==
    /\ selection.applied
    /\ selection.uri = "b.vue"
    /\ selection.result = <<>>
====
